---- MODULE Spec2Model ----
(***************************************************************************)
(* Model of the BIO parser (dataset/parser.py) and of the fuzzy-matching   *)
(* scorer (core/data/stats.py) of the ecclesial-schematisms pipeline.      *)
(*                                                                         *)
(* A Python str is a sequence of characters (atoms such as "a", "A",       *)
(* "a_acute", "."), so that strip / NFKD-fold / lower and the similarity   *)
(* ratio are computed on the characters.  Python None is the value None.   *)
(***************************************************************************)
EXTENDS Integers, Sequences, FiniteSets, TLC

VARIABLES
    \* evaluate_json_response (core/data/stats.py)
    pred_json,           \* argument pred_json
    gt_json,             \* argument gt_json
    pc,                  \* position inside evaluate_json_response
    metrics,             \* local metrics: field -> counters and rates
    available_parishes,  \* local list of predicted parishes not yet matched
    gi,                  \* index (1-based) of the next gt_entry of the for loop
    pairs,               \* <<index of gt_entry, index of best_pred_entry>> of every match
    unmatched_gt,        \* number of iterations that took the "not match_result" branch
    \* build_page_json (dataset/parser.py)
    words,               \* argument words
    bboxes,              \* argument bboxes
    labels,              \* argument labels
    ppc,                 \* position inside build_page_json
    sorted_tokens,       \* <<words, labels>> after the reading-order sort
    spans,               \* result of bio_to_spans
    page,                \* the returned page record
    \* validate_bio_tags (dataset/parser.py)
    issues,              \* the returned list of issues
    \* LLMModel (core/models/llm/model.py)
    llm_image,           \* argument image of predict
    llm_text,            \* argument text of predict
    enable_cache,        \* self.enable_cache
    structured_output,   \* the structured_output switch of the interface config
    cache,               \* what self.cache holds under the hash key of the arguments
    content,             \* what the interface hands back for the request
    messages,            \* self.messages
    prediction,          \* the value _predict returned
    lpc,                 \* position inside predict
    outcome,             \* how predict ended: value returned or exception raised
    \* EvaluationRunner.run (core/evaluation/runner.py), one sample of the loop
    results_json,        \* the sample's ground truth, decoded
    llm_prediction,      \* what llm_model.predict returned
    parsed_llm_prediction, \* parser.parse_page(llm_prediction)
    rpc,                 \* position inside the loop body
    \* MappingSaver (core/utils/mapping_utils.py)
    batch_size,          \* self.batch_size
    pages_processed,     \* self.pages_processed
    idx,                 \* self.idx
    _mappings,           \* self._mappings: per field, the set of <<latin, polish>> items
    files,               \* the mapping files of save_dir: the mappings last written
    csv,                 \* the rows appended to the *_mappings.csv files
    last_call            \* the call of the saver that returned last, with its arguments

vars == <<pred_json, gt_json, pc, metrics, available_parishes, gi, pairs, unmatched_gt,
          words, bboxes, labels, ppc, sorted_tokens, spans, page, issues,
          llm_image, llm_text, enable_cache, structured_output, cache, content, messages,
          prediction, lpc, outcome,
          results_json, llm_prediction, parsed_llm_prediction, rpc,
          batch_size, pages_processed, idx, _mappings, files, csv, last_call>>

evalVars == <<pred_json, gt_json, pc, metrics, available_parishes, gi, pairs, unmatched_gt>>
parseVars == <<words, bboxes, labels, ppc, sorted_tokens, spans, page, issues>>
llmVars == <<llm_image, llm_text, enable_cache, structured_output, cache, content, messages,
             prediction, lpc, outcome>>
runVars == <<results_json, llm_prediction, parsed_llm_prediction, rpc>>
saverVars == <<batch_size, pages_processed, idx, _mappings, files, csv, last_call>>

(***************************************************************************)
(* Bounds of the model                                                     *)
(***************************************************************************)
MaxGt == 2       \* longest ground-truth entry list
MaxPred == 3     \* longest predicted entry list
MaxLen == 3      \* longest token sequence

(***************************************************************************)
(* Python values                                                           *)
(***************************************************************************)
None == <<"None">>

Truthy(v) == v # None /\ v # <<>>

RECURSIVE SeqsUpTo(_, _)
SeqsUpTo(S, n) ==
    IF n = 0 THEN {<<>>}
    ELSE LET shorter == SeqsUpTo(S, n - 1)
         IN shorter \cup {Append(s, x) : s \in {t \in shorter : Len(t) = n - 1}, x \in S}

Max(a, b) == IF a >= b THEN a ELSE b

(***************************************************************************)
(* normalize_text                                                          *)
(***************************************************************************)
StripChars == {",", ".", ";", " "}

RECURSIVE LStrip(_)
LStrip(s) == IF s # <<>> /\ Head(s) \in StripChars THEN LStrip(Tail(s)) ELSE s

RECURSIVE RStrip(_)
RStrip(s) ==
    IF s # <<>> /\ s[Len(s)] \in StripChars THEN RStrip(SubSeq(s, 1, Len(s) - 1)) ELSE s

\* unicodedata.normalize("NFKD", c).encode("ascii", "ignore"): an accented letter
\* keeps its base letter, a letter without decomposition (l with stroke) is dropped.
AsciiFoldChar(c) ==
    CASE c = "a_acute" -> <<"a">>
      [] c = "A_acute" -> <<"A">>
      [] c = "o_acute" -> <<"o">>
      [] c = "l_stroke" -> <<>>
      [] OTHER -> <<c>>

RECURSIVE AsciiFold(_)
AsciiFold(s) == IF s = <<>> THEN <<>> ELSE AsciiFoldChar(Head(s)) \o AsciiFold(Tail(s))

LowerChar(c) ==
    CASE c = "A" -> "a"
      [] c = "B" -> "b"
      [] c = "C" -> "c"
      [] OTHER -> c

Lower(s) == [i \in 1..Len(s) |-> LowerChar(s[i])]

normalize_text(txt) ==
    IF txt = None THEN <<>> ELSE Lower(AsciiFold(RStrip(LStrip(txt))))

normalize_entry(entry) == [k \in DOMAIN entry |->
    IF entry[k] = None THEN None ELSE normalize_text(entry[k])]

(***************************************************************************)
(* The scorer and process.extractOne (rapidfuzz)                           *)
(***************************************************************************)
fuzzy_threshold == 80

RECURSIVE LCS(_, _)
LCS(a, b) ==
    IF a = <<>> \/ b = <<>> THEN 0
    ELSE IF Head(a) = Head(b) THEN 1 + LCS(Tail(a), Tail(b))
    ELSE Max(LCS(Tail(a), b), LCS(a, Tail(b)))

\* fuzz.token_set_ratio on strings of one token (no inner white space): 0 when a
\* string is empty, otherwise the Indel ratio 100 * 2 * LCS / (len1 + len2), here
\* in whole percent.
scorer(s1, s2) ==
    IF s1 = <<>> \/ s2 = <<>> THEN 0
    ELSE (200 * LCS(s1, s2)) \div (Len(s1) + Len(s2))

\* The scan of process.extractOne: None choices are skipped, a choice replaces
\* the best so far only with a strictly higher score, a score of 100 ends the scan.
RECURSIVE ExtractScan(_, _, _, _, _)
ExtractScan(query, choices, i, best, bestScore) ==
    IF i > Len(choices) THEN best
    ELSE IF choices[i] = None THEN ExtractScan(query, choices, i + 1, best, bestScore)
    ELSE LET s == scorer(query, choices[i])
         IN IF s >= fuzzy_threshold /\ (best = 0 \/ s > bestScore)
            THEN IF s = 100 THEN i ELSE ExtractScan(query, choices, i + 1, i, s)
            ELSE ExtractScan(query, choices, i + 1, best, bestScore)

\* extractOne returning the first choice that reaches the cutoff, not the best.
extractOneFirstFit(query, choices) ==
    IF query = None
          \/ \A i \in 1..Len(choices) :
                 choices[i] = None \/ scorer(query, choices[i]) < fuzzy_threshold
    THEN 0
    ELSE CHOOSE i \in 1..Len(choices) :
            /\ choices[i] # None /\ scorer(query, choices[i]) >= fuzzy_threshold
            /\ \A j \in 1..(i - 1) :
                   choices[j] = None \/ scorer(query, choices[j]) < fuzzy_threshold

\* Index in choices of the match, 0 for "no match".
extractOne(query, choices) ==
    IF query = None THEN 0 ELSE ExtractScan(query, choices, 1, 0, 0)

(***************************************************************************)
(* Metric helpers                                                          *)
(***************************************************************************)
PageFields == <<"page_number", "deanery">>
entry_fields == <<"parish", "dedication", "building_material">>
MetricFields == {"page_number", "deanery", "parish", "dedication", "building_material"}

\* Rates are kept in thousandths (the code rounds them to 3 places).
_init_metrics == [TP |-> 0, FP |-> 0, FN |-> 0,
                  precision |-> 0, recall |-> 0, f1 |-> 0, accuracy |-> 0]

_update(m, field, tp, fp, fn) ==
    [m EXCEPT ![field].TP = @ + tp, ![field].FP = @ + fp, ![field].FN = @ + fn]

\* A rate as the fraction <<numerator, denominator>>; 0.0 is <<0, 1>>.
PrecisionElseOne(m) == IF m.TP + m.FP # 0 THEN <<m.TP, m.TP + m.FP>> ELSE <<1, 1>>

Precision(m) == IF m.TP + m.FP # 0 THEN <<m.TP, m.TP + m.FP>> ELSE <<0, 1>>

Recall(m) == IF m.TP + m.FN # 0 THEN <<m.TP, m.TP + m.FN>> ELSE <<0, 1>>

\* 2 * prec * rec / (prec + rec) if (prec + rec) else 0.0
_f1(prec, rec) ==
    IF prec[1] * rec[2] + rec[1] * prec[2] # 0
    THEN <<2 * prec[1] * rec[1], prec[1] * rec[2] + rec[1] * prec[2]>>
    ELSE <<0, 1>>

_accuracy(m) == IF m.TP + m.FP + m.FN # 0 THEN <<m.TP, m.TP + m.FP + m.FN>> ELSE <<0, 1>>

\* round(x, 3) in thousandths, a tie going to the even neighbour.
Round3(q) ==
    LET n == 1000 * q[1]
        d == q[2]
        lo == n \div d
        r == n % d
    IN IF 2 * r < d THEN lo
       ELSE IF 2 * r > d THEN lo + 1
       ELSE IF lo % 2 = 0 THEN lo ELSE lo + 1

FillRates(m) ==
    [m EXCEPT !.precision = Round3(Precision(m)),
              !.recall = Round3(Recall(m)),
              !.f1 = Round3(_f1(Precision(m), Recall(m))),
              !.accuracy = Round3(_accuracy(m))]

(***************************************************************************)
(* evaluate_json_response                                                  *)
(***************************************************************************)
Counts(m) == [f \in MetricFields |-> <<m[f].TP, m[f].FP, m[f].FN>>]

\* PageFieldUpdate counting a hit as a spurious prediction too.
PageFieldUpdateHitAlsoFP(m, field, gt_raw, pred_raw) ==
    LET gt_val == normalize_text(gt_raw)
        pred_val == normalize_text(pred_raw)
    IN IF ~Truthy(gt_val)
       THEN IF Truthy(pred_val) THEN _update(m, field, 0, 1, 0) ELSE m
       ELSE IF ~Truthy(pred_val) THEN _update(m, field, 0, 0, 1)
       ELSE IF scorer(gt_val, pred_val) >= fuzzy_threshold THEN _update(m, field, 1, 1, 0)
       ELSE _update(m, field, 0, 1, 1)

\* One iteration of the loop over the page-level fields.
PageFieldUpdate(m, field, gt_raw, pred_raw) ==
    LET gt_val == normalize_text(gt_raw)
        pred_val == normalize_text(pred_raw)
    IN IF ~Truthy(gt_val)
       THEN IF Truthy(pred_val) THEN _update(m, field, 0, 1, 0) ELSE m
       ELSE IF ~Truthy(pred_val) THEN _update(m, field, 0, 0, 1)
       ELSE IF scorer(gt_val, pred_val) >= fuzzy_threshold THEN _update(m, field, 1, 0, 0)
       ELSE _update(m, field, 0, 1, 1)

PageFieldsLoop(m, pred, gt) ==
    PageFieldUpdate(PageFieldUpdate(m, "page_number", gt.page_number, pred.page_number),
                    "deanery", gt.deanery, pred.deanery)

\* EntryFieldUpdate with a wrong value counted as a spurious prediction only.
EntryFieldUpdateNoFN(m, fld, gt_val, pred_val) ==
    IF ~Truthy(gt_val)
    THEN IF Truthy(pred_val) THEN _update(m, fld, 0, 1, 0) ELSE m
    ELSE IF ~Truthy(pred_val) THEN _update(m, fld, 0, 0, 1)
    ELSE IF scorer(gt_val, pred_val) >= fuzzy_threshold THEN _update(m, fld, 1, 0, 0)
    ELSE _update(m, fld, 0, 1, 0)

\* One iteration of the loop over entry_fields[1:] for a matched pair.
EntryFieldUpdate(m, fld, gt_val, pred_val) ==
    IF ~Truthy(gt_val)
    THEN IF Truthy(pred_val) THEN _update(m, fld, 0, 1, 0) ELSE m
    ELSE IF ~Truthy(pred_val) THEN _update(m, fld, 0, 0, 1)
    ELSE IF scorer(gt_val, pred_val) >= fuzzy_threshold THEN _update(m, fld, 1, 0, 0)
    ELSE _update(m, fld, 0, 1, 1)

\* for fld in entry_fields: _update(metrics, fld, fp=.., fn=..)
UpdateEntryFields(m, fp, fn) ==
    _update(_update(_update(m, entry_fields[1], 0, fp, fn),
                    entry_fields[2], 0, fp, fn),
            entry_fields[3], 0, fp, fn)

\* BestPredEntry searching pred_entries[1:], the list without its first entry.
BestPredEntrySkipFirst(pred_entries, best_match_parish) ==
    IF \E i \in 2..Len(pred_entries) : pred_entries[i].parish = best_match_parish
    THEN CHOOSE i \in 2..Len(pred_entries) :
            /\ pred_entries[i].parish = best_match_parish
            /\ \A j \in 2..(i - 1) : pred_entries[j].parish # best_match_parish
    ELSE 0

\* next(e for e in pred_entries if e["parish"] == best_match_parish), as an
\* index; 0 when the generator is exhausted and next() raises StopIteration
BestPredEntry(pred_entries, best_match_parish) ==
    IF \E i \in 1..Len(pred_entries) : pred_entries[i].parish = best_match_parish
    THEN CHOOSE i \in 1..Len(pred_entries) :
            /\ pred_entries[i].parish = best_match_parish
            /\ \A j \in 1..(i - 1) : pred_entries[j].parish # best_match_parish
    ELSE 0

\* ListRemove dropping every occurrence of x.
ListRemoveAll(list, x) == SelectSeq(list, LAMBDA y : y # x)

\* ListRemove dropping the head of the list, whatever x is (list.pop(0)).
ListRemoveHead(list, x) == Tail(list)

\* list.remove(x): the first occurrence goes
ListRemove(list, x) ==
    LET i == CHOOSE k \in 1..Len(list) : list[k] = x /\ \A j \in 1..(k - 1) : list[j] # x
    IN SubSeq(list, 1, i - 1) \o SubSeq(list, i + 1, Len(list))

\* The state of the loop over gt_entries; raised: an exception left the loop.
LoopState(m, avail, prs, unm) ==
    [metrics |-> m, available_parishes |-> avail, pairs |-> prs, unmatched_gt |-> unm,
     raised |-> FALSE]

\* One iteration of "for gt_entry in gt_entries", gt_entry being gt_entries[g].
MatchIteration(pred_entries, st, g, gt_entry) ==
    LET index == extractOne(gt_entry.parish, st.available_parishes)
    IN IF index = 0
       THEN LoopState(UpdateEntryFields(st.metrics, 0, 1), st.available_parishes,
                      st.pairs, st.unmatched_gt + 1)
       ELSE LET best_match_parish == st.available_parishes[index]
                b == BestPredEntry(pred_entries, best_match_parish)
                best_pred_entry == pred_entries[b]
                m1 == _update(st.metrics, "parish", 1, 0, 0)
                m2 == EntryFieldUpdate(m1, entry_fields[2], gt_entry[entry_fields[2]],
                                       best_pred_entry[entry_fields[2]])
                m3 == EntryFieldUpdate(m2, entry_fields[3], gt_entry[entry_fields[3]],
                                       best_pred_entry[entry_fields[3]])
            IN IF b = 0
               THEN [st EXCEPT !.raised = TRUE]
               ELSE LoopState(m3, ListRemove(st.available_parishes, best_match_parish),
                              Append(st.pairs, <<g, b>>), st.unmatched_gt)

\* LeftoverUpdate counting the left-over predictions once, not once each.
LeftoverUpdateOnce(m, avail) == UpdateEntryFields(m, IF avail = <<>> THEN 0 ELSE 1, 0)

\* for _ in available_parishes: for fld in entry_fields: _update(metrics, fld, fp=1)
LeftoverUpdate(m, avail) == UpdateEntryFields(m, Len(avail), 0)

RatesLoop(m) == [f \in MetricFields |-> FillRates(m[f])]

InitialLoopState(m, pred) ==
    LoopState(m, [i \in 1..Len(pred.entries) |-> pred.entries[i].parish], <<>>, 0)

RECURSIVE EntriesLoop(_, _, _, _)
EntriesLoop(pred_entries, gt_entries, st, g) ==
    IF g > Len(gt_entries) \/ st.raised THEN st
    ELSE EntriesLoop(pred_entries, gt_entries,
                     MatchIteration(pred_entries, st, g, gt_entries[g]), g + 1)

\* The whole call: the loop state after the last gt_entry, with the final metrics.
evaluate_json_response(pred, gt) ==
    LET m0 == [f \in MetricFields |-> _init_metrics]
        st == EntriesLoop(pred.entries, gt.entries,
                          InitialLoopState(PageFieldsLoop(m0, pred, gt), pred), 1)
    IN IF st.raised THEN st
       ELSE [st EXCEPT !.metrics =
                           RatesLoop(LeftoverUpdate(st.metrics, st.available_parishes))]

(***************************************************************************)
(* Inputs of evaluate_json_response                                        *)
(***************************************************************************)
S_ab == <<"a", "b">>
S_abc == <<"a", "b", "c">>
S_bc == <<"b", "c">>
S_ab_acute == <<"a_acute", "b">>        \* "ab" with an accent on the a
S_Ab_dot == <<"A_acute", "b", ".">>     \* "ab" with accent, upper case and final dot

PageRecord(pn, dn, es) == [page_number |-> pn, deanery |-> dn, entries |-> es]

Entry(p, d, b) == [parish |-> p, dedication |-> d, building_material |-> b]

\* Page-level fields vary, at most one entry a side.
PageFamily(pred, gt) ==
    \E ppn \in {None, S_Ab_dot, S_bc}, pdn \in {None, S_Ab_dot, S_bc},
       gpn \in {None, S_ab}, gdn \in {None, S_ab},
       pe \in SeqsUpTo({Entry(S_abc, S_ab, None)}, 1),
       ge \in SeqsUpTo({Entry(S_abc, S_ab, None)}, 1) :
        /\ pred = PageRecord(ppn, pdn, pe)
        /\ gt = PageRecord(gpn, gdn, ge)

\* dedication and building_material vary (absent, equal, differing by an accent).
FieldFamily(pred, gt) ==
    \E pe \in SeqsUpTo({Entry(p, d, None) : p \in {S_abc, S_ab}, d \in {S_ab, S_ab_acute}},
                       MaxPred),
       ge \in SeqsUpTo({Entry(p, d, d) : p \in {S_abc, S_bc}, d \in {None, S_ab}}, MaxGt) :
        /\ pred = PageRecord(S_Ab_dot, None, pe)
        /\ gt = PageRecord(S_ab, None, ge)

\* parish names vary.
ParishFamily(pred, gt) ==
    \E pe \in SeqsUpTo({Entry(p, S_ab, None) : p \in {S_abc, S_bc, S_ab}}, MaxPred),
       ge \in SeqsUpTo({Entry(p, S_ab, None) : p \in {S_abc, S_bc, S_ab}}, MaxGt) :
        /\ pred = PageRecord(None, None, pe)
        /\ gt = PageRecord(None, None, ge)

EvalInputs(pred, gt) ==
    PageFamily(pred, gt) \/ FieldFamily(pred, gt) \/ ParishFamily(pred, gt)

(***************************************************************************)
(* evaluate_json_response as a state machine                               *)
(***************************************************************************)
\* no LLMModel in use
LLMIdle ==
    /\ llm_image = None /\ llm_text = None
    /\ enable_cache = FALSE /\ structured_output = FALSE
    /\ cache = None /\ content = None /\ messages = <<>>
    /\ prediction = None /\ lpc = "idle" /\ outcome = None

\* no sample of EvaluationRunner.run in work
RunIdle ==
    /\ results_json = PageRecord(None, None, <<>>)
    /\ llm_prediction = PageRecord(None, None, <<>>)
    /\ parsed_llm_prediction = PageRecord(None, None, <<>>)
    /\ rpc = "idle"

\* no MappingSaver in use
SaverIdle ==
    /\ batch_size = 1 /\ pages_processed = 0 /\ idx = 0
    /\ _mappings = {} /\ files = None /\ csv = <<>> /\ last_call = <<"idle">>

ParseIdle ==
    /\ words = <<>> /\ bboxes = <<>> /\ labels = <<>>
    /\ ppc = "idle" /\ sorted_tokens = <<>> /\ spans = <<>> /\ page = None
    /\ issues = <<>>

InitEval ==
    /\ EvalInputs(pred_json, gt_json)
    /\ pc = "start"
    /\ metrics = [f \in MetricFields |-> _init_metrics]
    /\ available_parishes = <<>>
    /\ gi = 1
    /\ pairs = <<>>
    /\ unmatched_gt = 0
    /\ ParseIdle
    /\ LLMIdle
    /\ RunIdle
    /\ SaverIdle

\* EvalPageFields counting on in the metrics the call before has left (metrics
\* kept in a dictionary that outlives the call).
EvalPageFieldsKeepsMetrics ==
    /\ pc = "start"
    /\ LET st == InitialLoopState(PageFieldsLoop(metrics, pred_json, gt_json), pred_json)
       IN /\ metrics' = st.metrics
          /\ available_parishes' = st.available_parishes
    /\ pc' = "entries"
    /\ gi' = 1
    /\ pairs' = <<>>
    /\ unmatched_gt' = 0
    /\ UNCHANGED <<pred_json, gt_json>>
    /\ UNCHANGED parseVars
    /\ UNCHANGED llmVars
    /\ UNCHANGED runVars
    /\ UNCHANGED saverVars

\* metrics created, the page-level loop, available_parishes built; the loop
\* over gt_entries starts at its first entry
EvalPageFields ==
    /\ pc = "start"
    /\ LET m0 == [f \in MetricFields |-> _init_metrics]
           st == InitialLoopState(PageFieldsLoop(m0, pred_json, gt_json), pred_json)
       IN /\ metrics' = st.metrics
          /\ available_parishes' = st.available_parishes
    /\ pc' = "entries"
    /\ gi' = 1
    /\ pairs' = <<>>
    /\ unmatched_gt' = 0
    /\ UNCHANGED <<pred_json, gt_json>>
    /\ UNCHANGED parseVars
    /\ UNCHANGED llmVars
    /\ UNCHANGED runVars
    /\ UNCHANGED saverVars

\* one iteration of the loop over gt_entries
EvalMatchEntry ==
    /\ pc = "entries"
    /\ gi <= Len(gt_json.entries)
    /\ LET st == MatchIteration(pred_json.entries,
                                LoopState(metrics, available_parishes, pairs, unmatched_gt),
                                gi, gt_json.entries[gi])
       IN /\ metrics' = st.metrics
          /\ available_parishes' = st.available_parishes
          /\ pairs' = st.pairs
          /\ unmatched_gt' = st.unmatched_gt
          /\ pc' = IF st.raised THEN "error" ELSE pc
    /\ gi' = gi + 1
    /\ UNCHANGED <<pred_json, gt_json>>
    /\ UNCHANGED parseVars
    /\ UNCHANGED llmVars
    /\ UNCHANGED runVars
    /\ UNCHANGED saverVars

\* the loop over the predictions left in available_parishes
EvalLeftover ==
    /\ pc = "entries"
    /\ gi > Len(gt_json.entries)
    /\ metrics' = LeftoverUpdate(metrics, available_parishes)
    /\ pc' = "rates"
    /\ UNCHANGED <<pred_json, gt_json, available_parishes, gi, pairs, unmatched_gt>>
    /\ UNCHANGED parseVars
    /\ UNCHANGED llmVars
    /\ UNCHANGED runVars
    /\ UNCHANGED saverVars

\* the loop that fills precision, recall, f1 and accuracy; return metrics
EvalFillRates ==
    /\ pc = "rates"
    /\ metrics' = RatesLoop(metrics)
    /\ pc' = "done"
    /\ UNCHANGED <<pred_json, gt_json, available_parishes, gi, pairs, unmatched_gt>>
    /\ UNCHANGED parseVars
    /\ UNCHANGED llmVars
    /\ UNCHANGED runVars
    /\ UNCHANGED saverVars

NextEval == EvalPageFields \/ EvalMatchEntry \/ EvalLeftover \/ EvalFillRates

SpecEval == InitEval /\ [][NextEval]_vars

(***************************************************************************)
(* Properties of evaluate_json_response                                    *)
(***************************************************************************)
EntryFieldSet == {entry_fields[i] : i \in 1..Len(entry_fields)}
PageFieldSet == {PageFields[i] : i \in 1..Len(PageFields)}

AllGtProcessed == pc \in {"rates", "done"} \/ (pc = "entries" /\ gi > Len(gt_json.entries))

\* Change of the counters <<TP, FP, FN>> of field f in a step.
Delta(f) == <<metrics'[f].TP - metrics[f].TP,
              metrics'[f].FP - metrics[f].FP,
              metrics'[f].FN - metrics[f].FN>>

\* C1: no predicted entry is matched twice: the predicted entries paired with
\* two different ground-truth entries are different entries.
C1_NoPredictedEntryMatchedTwice ==
    \A i, j \in 1..Len(pairs) : i # j => pairs[i][2] # pairs[j][2]

\* C2: matcher conservation: once every ground-truth entry is processed,
\* matched + unmatched ground truth = |ground_truth| and
\* matched + predictions left in the pool = |predicted|.
C2_MatcherConservation ==
    AllGtProcessed =>
        /\ Len(pairs) + unmatched_gt = Len(gt_json.entries)
        /\ Len(pairs) + Len(available_parishes) = Len(pred_json.entries)

\* a run with a match, an unmatched ground truth, a left-over prediction and a
\* parish name that occurs twice among the predictions
C2_Witness ==
    /\ pc = "done"
    /\ Len(pairs) >= 1 /\ unmatched_gt >= 1 /\ Len(available_parishes) >= 1
    /\ \E i, j \in 1..Len(pred_json.entries) :
           i # j /\ pred_json.entries[i].parish = pred_json.entries[j].parish

\* The five cases of the per-field rule, for the change d of a field's counters
\* and the pair of values (g: ground truth, p: prediction) that was compared.
FieldRule(d, g, p) ==
    /\ (~Truthy(g) /\ ~Truthy(p)) => d = <<0, 0, 0>>
    /\ (~Truthy(g) /\ Truthy(p)) => d = <<0, 1, 0>>
    /\ (Truthy(g) /\ ~Truthy(p)) => d = <<0, 0, 1>>
    /\ (Truthy(g) /\ Truthy(p) /\ scorer(g, p) >= fuzzy_threshold) => d = <<1, 0, 0>>
    /\ (Truthy(g) /\ Truthy(p) /\ scorer(g, p) < fuzzy_threshold) => d = <<0, 1, 1>>

\* C6: per-field update rule: the step that scores the page-level fields changes
\* the counters of page_number and of deanery by the rule (on the normalized
\* values), and a step that matches an entry pair changes the counters of every
\* non-parish field by the rule, applied to the values of the two paired entries.
C6_PerFieldUpdateRule ==
    [][ /\ (pc = "start" /\ pc' = "entries") =>
               \A f \in PageFieldSet :
                   FieldRule(Delta(f), normalize_text(gt_json[f]), normalize_text(pred_json[f]))
        /\ Len(pairs') = Len(pairs) + 1 =>
               LET pr == pairs'[Len(pairs')]
               IN \A f \in EntryFieldSet \ {"parish"} :
                      FieldRule(Delta(f), gt_json.entries[pr[1]][f], pred_json.entries[pr[2]][f])
      ]_vars

\* a single matched pair whose dedications are both present and differ, next to a
\* page number that agrees after normalization
C6_Witness ==
    /\ pc = "done"
    /\ Len(gt_json.entries) = 1 /\ Len(pred_json.entries) = 1 /\ Len(pairs) = 1
    /\ Counts(metrics)["dedication"] = <<0, 1, 1>>
    /\ Counts(metrics)["page_number"] = <<1, 0, 0>>
    /\ gt_json.page_number # pred_json.page_number

\* C7: unmatched-entry accounting: an iteration without a match adds 1 to FN of
\* every entry field and nothing else, a match adds 1 to the parish TP and leaves
\* the parish FP and FN alone, the left-over loop adds the number of left-over
\* predictions to FP of every entry field; with 2 ground-truth entries,
\* 3 predictions and 1 matched pair the parish counters end as TP=1, FP=2, FN=1.
C7_UnmatchedEntryAccounting ==
    /\ [][ /\ unmatched_gt' = unmatched_gt + 1 =>
                  \A f \in EntryFieldSet : Delta(f) = <<0, 0, 1>>
           /\ Len(pairs') = Len(pairs) + 1 => Delta("parish") = <<1, 0, 0>>
           /\ (pc = "entries" /\ pc' = "rates") =>
                  \A f \in EntryFieldSet : Delta(f) = <<0, Len(available_parishes), 0>>
         ]_vars
    /\ []((/\ pc = "done"
           /\ Len(gt_json.entries) = 2
           /\ Len(pred_json.entries) = 3
           /\ Len(pairs) = 1)
          => Counts(metrics)["parish"] = <<1, 2, 1>>)

\* 2 ground-truth entries, 3 predictions, 1 matched pair
C7_Witness ==
    /\ pc = "done"
    /\ Len(gt_json.entries) = 2 /\ Len(pred_json.entries) = 3
    /\ Len(pairs) = 1 /\ unmatched_gt = 1 /\ Len(available_parishes) = 2

\* The rates of a metrics record in thousandths.
RatesInRange(m) ==
    /\ m.precision \in 0..1000 /\ m.recall \in 0..1000
    /\ m.f1 \in 0..1000 /\ m.accuracy \in 0..1000

\* C8 (amended): every rate of every field lies in [0, 1] and is 0 whenever its
\* denominator is 0 (precision + recall is 0 exactly when TP is 0).
C8_ScorerBounds ==
    pc = "done" =>
        \A f \in MetricFields :
            LET m == metrics[f]
            IN /\ RatesInRange(m)
               /\ m.TP + m.FP = 0 => m.precision = 0
               /\ m.TP + m.FN = 0 => m.recall = 0
               /\ m.TP = 0 => m.f1 = 0
               /\ m.TP + m.FP + m.FN = 0 => m.accuracy = 0

\* a field without any count next to a field whose rates are strictly inside (0, 1)
C8_Witness ==
    /\ pc = "done"
    /\ \E f \in MetricFields : metrics[f].TP + metrics[f].FP + metrics[f].FN = 0
    /\ \E f \in MetricFields :
           /\ metrics[f].precision \in 1..999
           /\ metrics[f].recall \in 1..999
           /\ metrics[f].f1 \in 1..999
           /\ metrics[f].accuracy \in 1..999

\* C8 as stated: every rate lies in [0, 1] and is 0 exactly when its denominator is 0.
C8_Original ==
    pc = "done" =>
        \A f \in MetricFields :
            LET m == metrics[f]
            IN /\ RatesInRange(m)
               /\ m.precision = 0 <=> m.TP + m.FP = 0
               /\ m.recall = 0 <=> m.TP + m.FN = 0
               /\ m.f1 = 0 <=> m.TP = 0
               /\ m.accuracy = 0 <=> m.TP + m.FP + m.FN = 0

\* The page record with every text field normalized.
NormalizedJson(j) ==
    [page_number |-> IF j.page_number = None THEN None ELSE normalize_text(j.page_number),
     deanery |-> IF j.deanery = None THEN None ELSE normalize_text(j.deanery),
     entries |-> [i \in 1..Len(j.entries) |-> normalize_entry(j.entries[i])]]

\* C9: normalization is applied to both sides before every comparison, so an
\* input and the input that differs from it only by case, diacritics and
\* surrounding punctuation (its normalized form) give the same counters.
C9_NormalizedBeforeComparison ==
    pc = "done" =>
        Counts(metrics) =
            Counts(evaluate_json_response(NormalizedJson(pred_json),
                                          NormalizedJson(gt_json)).metrics)

PermutationsOf(s) ==
    {[i \in 1..Len(s) |-> s[p[i]]] : p \in Permutations(1..Len(s))}

\* The result is the same for every order of the ground-truth entries.
SameForEveryGtOrder ==
    \A perm \in PermutationsOf(gt_json.entries) :
        LET r == evaluate_json_response(pred_json, [gt_json EXCEPT !.entries = perm])
        IN /\ Len(r.pairs) = Len(pairs)
           /\ Counts(r.metrics) = Counts(metrics)

\* No predicted parish reaches the cutoff against two ground-truth entries.
NoSharedCandidate ==
    \A i \in 1..Len(pred_json.entries) :
        Cardinality({g \in 1..Len(gt_json.entries) :
            scorer(gt_json.entries[g].parish, pred_json.entries[i].parish)
                >= fuzzy_threshold}) <= 1

\* C10 as stated: permuting the ground-truth list changes neither the number of
\* matched pairs nor the per-field TP/FP/FN.
C10_Original == pc = "done" => SameForEveryGtOrder

\* C10 (amended): when no predicted parish reaches the cutoff against more than
\* one ground-truth entry, permuting the ground-truth list changes neither the
\* number of matched pairs nor the per-field TP/FP/FN.
C10_OrderIndependentWithoutSharedCandidates ==
    (pc = "done" /\ NoSharedCandidate) => SameForEveryGtOrder

\* two different ground-truth parishes, each matched to an own prediction
C10_Witness ==
    /\ pc = "done"
    /\ NoSharedCandidate
    /\ Len(gt_json.entries) = 2
    /\ gt_json.entries[1].parish # gt_json.entries[2].parish
    /\ Len(pairs) = 2

(***************************************************************************)
(* dataset/parser.py: labels, spans                                        *)
(*                                                                         *)
(* A label is the list of its parts around the first "-": <<"O">>,         *)
(* <<"B", "parish">> for "B-parish", and a one-part list other than        *)
(* <<"O">> for a label without "-".  An entity type is an atom; NoEntity   *)
(* is Python None in the place of an entity type.                          *)
(***************************************************************************)
NoEntity == "None"

O == <<"O">>

HasDash(tag) == Len(tag) = 2

\* " ".join(buff)
RECURSIVE Join(_)
Join(buff) ==
    IF buff = <<>> THEN <<>>
    ELSE IF Len(buff) = 1 THEN buff[1]
    ELSE buff[1] \o <<" ">> \o Join(Tail(buff))

SpanState(sp, buff, ent_type) == [spans |-> sp, buff |-> buff, ent_type |-> ent_type]

\* BioStep going on with the old buffer behind a closed span (buff.append(w)
\* in the place of buff = [w]).
BioStepNoBufferReset(st, w, tag) ==
    IF tag = O
    THEN IF st.buff # <<>>
         THEN SpanState(Append(st.spans, <<st.ent_type, Join(st.buff)>>), <<>>, NoEntity)
         ELSE st
    ELSE IF ~HasDash(tag) THEN st
    ELSE LET prefix == tag[1]
             t == tag[2]
         IN IF prefix = "B" \/ (st.ent_type # NoEntity /\ t # st.ent_type)
            THEN SpanState(IF st.buff # <<>>
                           THEN Append(st.spans, <<st.ent_type, Join(st.buff)>>)
                           ELSE st.spans,
                           Append(st.buff, w), t)
            ELSE [st EXCEPT !.buff = Append(st.buff, w)]

\* BioStep closing the open span at a label without "-", as it does at "O".
BioStepMalformedAsO(st, w, tag) ==
    IF tag = O \/ ~HasDash(tag)
    THEN IF st.buff # <<>>
         THEN SpanState(Append(st.spans, <<st.ent_type, Join(st.buff)>>), <<>>, NoEntity)
         ELSE st
    ELSE LET prefix == tag[1]
             t == tag[2]
         IN IF prefix = "B" \/ (st.ent_type # NoEntity /\ t # st.ent_type)
            THEN SpanState(IF st.buff # <<>>
                           THEN Append(st.spans, <<st.ent_type, Join(st.buff)>>)
                           ELSE st.spans,
                           <<w>>, t)
            ELSE [st EXCEPT !.buff = Append(st.buff, w)]

\* BioStep closing the open span at the prefix "B" only: a label of another
\* prefix is appended whatever its entity type.
BioStepOnlyBCloses(st, w, tag) ==
    IF tag = O
    THEN IF st.buff # <<>>
         THEN SpanState(Append(st.spans, <<st.ent_type, Join(st.buff)>>), <<>>, NoEntity)
         ELSE st
    ELSE IF ~HasDash(tag) THEN st
    ELSE LET prefix == tag[1]
             t == tag[2]
         IN IF prefix = "B"
            THEN SpanState(IF st.buff # <<>>
                           THEN Append(st.spans, <<st.ent_type, Join(st.buff)>>)
                           ELSE st.spans,
                           <<w>>, t)
            ELSE [st EXCEPT !.buff = Append(st.buff, w)]

\* One iteration of "for w, tag in zip(words, labels)" of bio_to_spans.
BioStep(st, w, tag) ==
    IF tag = O
    THEN IF st.buff # <<>>
         THEN SpanState(Append(st.spans, <<st.ent_type, Join(st.buff)>>), <<>>, NoEntity)
         ELSE st
    ELSE IF ~HasDash(tag) THEN st
    ELSE LET prefix == tag[1]
             t == tag[2]
         IN IF prefix = "B" \/ (st.ent_type # NoEntity /\ t # st.ent_type)
            THEN SpanState(IF st.buff # <<>>
                           THEN Append(st.spans, <<st.ent_type, Join(st.buff)>>)
                           ELSE st.spans,
                           <<w>>, t)
            ELSE [st EXCEPT !.buff = Append(st.buff, w)]

RECURSIVE BioLoop(_, _, _, _)
BioLoop(ws, ls, st, i) ==
    IF i > Len(ws) \/ i > Len(ls) THEN st
    ELSE BioLoop(ws, ls, BioStep(st, ws[i], ls[i]), i + 1)

bio_to_spans(ws, ls) ==
    LET st == BioLoop(ws, ls, SpanState(<<>>, <<>>, NoEntity), 1)
    IN IF st.buff # <<>> THEN Append(st.spans, <<st.ent_type, Join(st.buff)>>) ELSE st.spans

(***************************************************************************)
(* sort_by_layout; a bounding box is <<x1, y1, x2, y2>>                    *)
(***************************************************************************)
\* KeyLess on the key bboxes[i][1] alone: y1 without x1.
KeyLessYOnly(b1, b2) == b1[2] < b2[2]

\* KeyLess on the key (bboxes[i][0], bboxes[i][1]): x1 before y1.
KeyLessXFirst(b1, b2) == b1[1] < b2[1] \/ (b1[1] = b2[1] /\ b1[2] < b2[2])

\* key=lambda i: (bboxes[i][1], bboxes[i][0]), compared as Python tuples
KeyLess(b1, b2) == b1[2] < b2[2] \/ (b1[2] = b2[2] /\ b1[1] < b2[1])

\* sorted() is stable: index i, larger than every index of order, goes behind
\* the indices whose key is not larger than its own.
RECURSIVE InsertIndex(_, _, _)
InsertIndex(order, i, bbs) ==
    IF order = <<>> THEN <<i>>
    ELSE IF KeyLess(bbs[i], bbs[Head(order)]) THEN <<i>> \o order
    ELSE <<Head(order)>> \o InsertIndex(Tail(order), i, bbs)

RECURSIVE SortedOrder(_, _)
SortedOrder(n, bbs) ==
    IF n = 0 THEN <<>> ELSE InsertIndex(SortedOrder(n - 1, bbs), n, bbs)

\* Returns <<words, labels>>.
sort_by_layout(ws, bbs, ls) ==
    IF bbs = <<>> \/ Len(bbs) # Len(ws) THEN <<ws, ls>>
    ELSE LET order == SortedOrder(Len(ws), bbs)
         IN <<[k \in 1..Len(order) |-> ws[order[k]]], [k \in 1..Len(order) |-> ls[order[k]]]>>

(***************************************************************************)
(* build_page_json                                                         *)
(***************************************************************************)
EmptyEntry == [parish |-> None, dedication |-> None, building_material |-> None]

BuildState(pn, dn, es, cur) ==
    [page_number |-> pn, deanery |-> dn, entries |-> es, current |-> cur]

\* BuildStep keeping the first value written to a field (first write wins).
BuildStepFirstWins(st, span) ==
    LET ent_type == span[1]
        text == span[2]
        Keep(old) == IF old = None THEN text ELSE old
    IN CASE ent_type = "page_number" -> [st EXCEPT !.page_number = Keep(@)]
         [] ent_type = "deanery" -> [st EXCEPT !.deanery = Keep(@)]
         [] ent_type = "parish" ->
                IF Truthy(st.current.parish)
                THEN [st EXCEPT !.entries = Append(st.entries, st.current),
                                !.current = [EmptyEntry EXCEPT !.parish = text]]
                ELSE [st EXCEPT !.current.parish = text]
         [] ent_type = "dedication" -> [st EXCEPT !.current.dedication = Keep(@)]
         [] ent_type = "building_material" ->
                [st EXCEPT !.current.building_material = Keep(@)]
         [] OTHER -> st

\* BuildStep putting a finished entry in front of the list.
BuildStepPrepend(st, span) ==
    LET ent_type == span[1]
        text == span[2]
    IN CASE ent_type = "page_number" -> [st EXCEPT !.page_number = text]
         [] ent_type = "deanery" -> [st EXCEPT !.deanery = text]
         [] ent_type = "parish" ->
                IF Truthy(st.current.parish)
                THEN [st EXCEPT !.entries = <<st.current>> \o st.entries,
                                !.current = [EmptyEntry EXCEPT !.parish = text]]
                ELSE [st EXCEPT !.current.parish = text]
         [] ent_type = "dedication" -> [st EXCEPT !.current.dedication = text]
         [] ent_type = "building_material" -> [st EXCEPT !.current.building_material = text]
         [] OTHER -> st

\* BuildStep starting a fresh entry at every parish span, the first one
\* included: what was collected before the first parish span is lost.
BuildStepFreshEntryAtParish(st, span) ==
    LET ent_type == span[1]
        text == span[2]
    IN CASE ent_type = "page_number" -> [st EXCEPT !.page_number = text]
         [] ent_type = "deanery" -> [st EXCEPT !.deanery = text]
         [] ent_type = "parish" ->
                IF Truthy(st.current.parish)
                THEN [st EXCEPT !.entries = Append(st.entries, st.current),
                                !.current = [EmptyEntry EXCEPT !.parish = text]]
                ELSE [st EXCEPT !.current = [EmptyEntry EXCEPT !.parish = text]]
         [] ent_type = "dedication" -> [st EXCEPT !.current.dedication = text]
         [] ent_type = "building_material" -> [st EXCEPT !.current.building_material = text]
         [] OTHER -> st

\* One iteration of "for ent_type, text in spans".
BuildStep(st, span) ==
    LET ent_type == span[1]
        text == span[2]
    IN CASE ent_type = "page_number" -> [st EXCEPT !.page_number = text]
         [] ent_type = "deanery" -> [st EXCEPT !.deanery = text]
         [] ent_type = "parish" ->
                IF Truthy(st.current.parish)
                THEN [st EXCEPT !.entries = Append(st.entries, st.current),
                                !.current = [EmptyEntry EXCEPT !.parish = text]]
                ELSE [st EXCEPT !.current.parish = text]
         [] ent_type = "dedication" -> [st EXCEPT !.current.dedication = text]
         [] ent_type = "building_material" -> [st EXCEPT !.current.building_material = text]
         [] OTHER -> st

RECURSIVE BuildLoop(_, _, _)
BuildLoop(sp, st, i) ==
    IF i > Len(sp) THEN st ELSE BuildLoop(sp, BuildStep(st, sp[i]), i + 1)

\* FlushLast that never appends the running entry.
FlushLastNever(st) == st.entries

\* FlushLast that appends the running entry without looking at its parish.
FlushLastAlways(st) == Append(st.entries, st.current)

\* "Flush last entry if it exists": the entries list that is returned.
FlushLast(st) ==
    IF Truthy(st.current.parish) THEN Append(st.entries, st.current) ELSE st.entries

\* The part of build_page_json behind the call of bio_to_spans.
BuildFromSpans(sp) ==
    LET st == BuildLoop(sp, BuildState(None, None, <<>>, EmptyEntry), 1)
    IN PageRecord(st.page_number, st.deanery, FlushLast(st))

\* "if bboxes: words, labels = sort_by_layout(words, bboxes, labels)"
SortIfBoxes(ws, bbs, ls) == IF bbs # <<>> THEN sort_by_layout(ws, bbs, ls) ELSE <<ws, ls>>

build_page_json(ws, bbs, ls) ==
    LET wl == SortIfBoxes(ws, bbs, ls)
    IN BuildFromSpans(bio_to_spans(wl[1], wl[2]))

(***************************************************************************)
(* Inputs of build_page_json.  The OCR provider hands over stripped,       *)
(* non-empty words; token i carries the i-th word of WordList.             *)
(***************************************************************************)
WordList == << <<"a">>, <<"b">>, <<"c">>, <<"d">>, <<"e">>, <<"f">> >>

LabelSet == {O, <<"parish">>,
             <<"B", "parish">>, <<"I", "parish">>,
             <<"B", "dedication">>, <<"I", "dedication">>,
             <<"B", "building_material">>, <<"B", "page_number">>, <<"B", "deanery">>}

BoxSet == {<<1, 0, 2, 1>>, <<0, 1, 1, 2>>}

RECURSIVE SeqsOfLen(_, _)
SeqsOfLen(S, n) ==
    IF n = 0 THEN {<<>>} ELSE {Append(s, x) : s \in SeqsOfLen(S, n - 1), x \in S}

ParseInputs(ws, bbs, ls) ==
    \E n \in 0..MaxLen :
        /\ ws = SubSeq(WordList, 1, n)
        /\ ls \in SeqsOfLen(LabelSet, n)
        /\ bbs \in SeqsOfLen(BoxSet, n) \cup {<<>>}

(***************************************************************************)
(* build_page_json as a state machine                                      *)
(***************************************************************************)
EvalIdle ==
    /\ pred_json = PageRecord(None, None, <<>>)
    /\ gt_json = PageRecord(None, None, <<>>)
    /\ pc = "idle"
    /\ metrics = [f \in MetricFields |-> _init_metrics]
    /\ available_parishes = <<>>
    /\ gi = 1
    /\ pairs = <<>>
    /\ unmatched_gt = 0

InitParse ==
    /\ ParseInputs(words, bboxes, labels)
    /\ ppc = "start"
    /\ sorted_tokens = <<>>
    /\ spans = <<>>
    /\ page = None
    /\ issues = <<>>
    /\ EvalIdle
    /\ LLMIdle
    /\ RunIdle
    /\ SaverIdle

\* the reading-order sort at the head of build_page_json
ParseSort ==
    /\ ppc = "start"
    /\ sorted_tokens' = SortIfBoxes(words, bboxes, labels)
    /\ ppc' = "sorted"
    /\ UNCHANGED <<words, bboxes, labels, spans, page, issues>>
    /\ UNCHANGED evalVars
    /\ UNCHANGED llmVars
    /\ UNCHANGED runVars
    /\ UNCHANGED saverVars

\* spans = bio_to_spans(words, labels)
ParseSpans ==
    /\ ppc = "sorted"
    /\ spans' = bio_to_spans(sorted_tokens[1], sorted_tokens[2])
    /\ ppc' = "spans"
    /\ UNCHANGED <<words, bboxes, labels, sorted_tokens, page, issues>>
    /\ UNCHANGED evalVars
    /\ UNCHANGED llmVars
    /\ UNCHANGED runVars
    /\ UNCHANGED saverVars

\* the loop over the spans, the last flush and the return
ParseBuild ==
    /\ ppc = "spans"
    /\ page' = BuildFromSpans(spans)
    /\ ppc' = "done"
    /\ UNCHANGED <<words, bboxes, labels, sorted_tokens, spans, issues>>
    /\ UNCHANGED evalVars
    /\ UNCHANGED llmVars
    /\ UNCHANGED runVars
    /\ UNCHANGED saverVars

NextParse == ParseSort \/ ParseSpans \/ ParseBuild

SpecParse == InitParse /\ [][NextParse]_vars

(***************************************************************************)
(* Properties of build_page_json                                           *)
(***************************************************************************)
NoMalformedTag(ls) == \A i \in 1..Len(ls) : ls[i] = O \/ HasDash(ls[i])

ParishSpans(sp) == SelectSeq(sp, LAMBDA x : x[1] = "parish")

\* The tokens were handed over out of reading order.
Reordered == sorted_tokens[1] # words

C4_EntriesHaveParish ==
    ppc = "done" => \A i \in 1..Len(page.entries) : page.entries[i].parish # None

\* an entry with a parish and nothing else, behind an entry with a dedication
C4_Witness ==
    /\ ppc = "done"
    /\ Len(page.entries) = 2
    /\ page.entries[1].dedication # None
    /\ page.entries[2].dedication = None
    /\ page.entries[2].building_material = None

\* C5: order preservation: the parishes of the entries are the texts of the
\* parish spans of the sorted token sequence, in the same order.
C5_OrderPreserved ==
    ppc = "done" =>
        [i \in 1..Len(page.entries) |-> page.entries[i].parish] =
            LET ps == ParishSpans(bio_to_spans(sorted_tokens[1], sorted_tokens[2]))
            IN [i \in 1..Len(ps) |-> ps[i][2]]

\* three entries whose tokens came in another order than the reading order
C5_Witness ==
    /\ ppc = "done"
    /\ Reordered
    /\ Len(page.entries) = 3
    /\ page.entries[1].parish # <<"a">>

(***************************************************************************)
(* validate_bio_tags.  An issue is <<i, kind>>: the position i of the      *)
(* message "Position {i}: ..." (0-based) and which of the four messages.   *)
(***************************************************************************)
Issue(pos, kind) == <<pos, kind>>

\* "if prefix not in ['B', 'I']: issues.append(... Invalid BIO prefix ...)"
PrefixCheck(iss, pos, prefix) ==
    IF prefix \notin {"B", "I"} THEN Append(iss, Issue(pos, "invalid_prefix")) ELSE iss

\* ChecksPrevious looking behind every label that is not a B- label.
ChecksPreviousNonB(prefix, pos) == prefix # "B" /\ pos > 0

\* "if prefix == 'I' and i > 0"
ChecksPrevious(prefix, pos) == prefix = "I" /\ pos > 0

\* PreviousCheck taking part [0] of the split previous label, not part [1].
PreviousCheckPrefixPart(iss, pos, entity_type, prev_label) ==
    IF prev_label = O THEN Append(iss, Issue(pos, "follows_O"))
    ELSE IF HasDash(prev_label)
         THEN IF prev_label[1] # entity_type
              THEN Append(iss, Issue(pos, "entity_mismatch"))
              ELSE iss
         ELSE iss

\* The body of "if prefix == 'I' and i > 0", prev_label being labels[i-1].
PreviousCheck(iss, pos, entity_type, prev_label) ==
    IF prev_label = O THEN Append(iss, Issue(pos, "follows_O"))
    ELSE IF HasDash(prev_label)
         THEN IF prev_label[2] # entity_type
              THEN Append(iss, Issue(pos, "entity_mismatch"))
              ELSE iss
         ELSE iss

\* One iteration of "for i, label in enumerate(labels)"; ls[k] holds labels[k-1].
ValidateStep(iss, ls, k) ==
    LET label == ls[k]
        pos == k - 1
    IN IF label = O THEN iss
       ELSE IF ~HasDash(label) THEN Append(iss, Issue(pos, "invalid_format"))
       ELSE LET prefix == label[1]
                entity_type == label[2]
                iss1 == PrefixCheck(iss, pos, prefix)
            IN IF ChecksPrevious(prefix, pos)
               THEN PreviousCheck(iss1, pos, entity_type, ls[k - 1])
               ELSE iss1

RECURSIVE ValidateLoop(_, _, _)
ValidateLoop(iss, ls, k) ==
    IF k > Len(ls) THEN iss ELSE ValidateLoop(ValidateStep(iss, ls, k), ls, k + 1)

validate_bio_tags(ls) == ValidateLoop(<<>>, ls, 1)

(***************************************************************************)
(* validate_bio_tags as a state machine                                    *)
(***************************************************************************)
\* O, a label without "-", B-/I- labels of two entity types, a label with
\* another prefix.
ValidateLabelSet == {O, <<"parish">>,
                     <<"B", "parish">>, <<"I", "parish">>,
                     <<"B", "dedication">>, <<"I", "dedication">>,
                     <<"X", "parish">>}

InitValidate ==
    /\ \E n \in 0..MaxLen : labels \in SeqsOfLen(ValidateLabelSet, n)
    /\ words = <<>>
    /\ bboxes = <<>>
    /\ ppc = "validate"
    /\ sorted_tokens = <<>>
    /\ spans = <<>>
    /\ page = None
    /\ issues = <<>>
    /\ EvalIdle
    /\ LLMIdle
    /\ RunIdle
    /\ SaverIdle

\* the whole call: issues = validate_bio_tags(labels)
ValidateCall ==
    /\ ppc = "validate"
    /\ issues' = validate_bio_tags(labels)
    /\ ppc' = "validated"
    /\ UNCHANGED <<words, bboxes, labels, sorted_tokens, spans, page>>
    /\ UNCHANGED evalVars
    /\ UNCHANGED llmVars
    /\ UNCHANGED runVars
    /\ UNCHANGED saverVars

NextValidate == ValidateCall

SpecValidate == InitValidate /\ [][NextValidate]_vars

(***************************************************************************)
(* Properties of validate_bio_tags                                         *)
(***************************************************************************)
IsITag(label) == HasDash(label) /\ label[1] = "I"

\* label is B-X or I-X
OpensOrContinues(label, X) == HasDash(label) /\ label[1] \in {"B", "I"} /\ label[2] = X

\* the issues of the returned list that are about position pos
IssuesAt(iss, pos) == SelectSeq(iss, LAMBDA x : x[1] = pos)

\* C11: validator completeness: every position that holds an I-X label not
\* immediately preceded by a B-X or I-X label of the same X (position 0 and
\* an I-X right behind "O" included) has an issue in the returned list.
C11_ValidatorCompleteness ==
    ppc = "validated" =>
        \A k \in 1..Len(labels) :
            (/\ IsITag(labels[k])
             /\ ~(k > 1 /\ OpensOrContinues(labels[k - 1], labels[k][2])))
                => IssuesAt(issues, k - 1) # <<>>

\* Only runs B-X, I-X, ..., I-X of one X each, and "O" labels between them.
WellFormedRuns(ls) ==
    \A k \in 1..Len(ls) :
        \/ ls[k] = O
        \/ HasDash(ls[k]) /\ ls[k][1] = "B"
        \/ IsITag(ls[k]) /\ k > 1 /\ OpensOrContinues(ls[k - 1], ls[k][2])

\* C12: validator soundness: a label sequence built only from well-formed
\* runs B-X I-X ... I-X, with or without "O" labels between the runs, gets an
\* empty issue list.
C12_ValidatorSoundness ==
    (ppc = "validated" /\ WellFormedRuns(labels)) => issues = <<>>

\* a run with an I- label, and an "O" label, validated
C12_Witness ==
    /\ ppc = "validated"
    /\ WellFormedRuns(labels)
    /\ Len(labels) = MaxLen
    /\ \E k \in 1..Len(labels) : IsITag(labels[k])
    /\ \E k \in 1..Len(labels) : labels[k] = O

\* C13 (as amended): validate_bio_tags reports at most one issue for a
\* position: the four checks exclude one another.
C13_AtMostOneIssuePerPosition ==
    ppc = "validated" =>
        \A k \in 1..Len(labels) : Len(IssuesAt(issues, k - 1)) <= 1

\* a label with a prefix other than B and I, of another entity type than the
\* label before it, gets the one issue about its prefix
C13_Witness ==
    /\ ppc = "validated"
    /\ \E k \in 2..Len(labels) :
          /\ HasDash(labels[k]) /\ labels[k][1] \notin {"B", "I"}
          /\ HasDash(labels[k - 1]) /\ labels[k - 1][2] # labels[k][2]
          /\ IssuesAt(issues, k - 1) = <<Issue(k - 1, "invalid_prefix")>>

\* C13 (as stated): validate_bio_tags can report two issues for one position:
\* among the label sequences it is called with there is one with a position
\* that has two or more issues in the returned list.
C13_Original ==
    ppc = "validated" =>
        \E n \in 0..MaxLen : \E ls \in SeqsOfLen(ValidateLabelSet, n) :
            \E k \in 1..n : Len(IssuesAt(validate_bio_tags(ls), k - 1)) >= 2

(***************************************************************************)
(* Properties of bio_to_spans                                              *)
(***************************************************************************)
\* bio_to_spans has returned
SpansReturned == ppc \in {"spans", "done"}

Malformed(tag) == tag # O /\ ~HasDash(tag)

\* the labels with every label without "-" replaced by "O"
MalformedAsO(ls) == [k \in 1..Len(ls) |-> IF Malformed(ls[k]) THEN O ELSE ls[k]]

\* the positions of the labels that are "O" or hold a "-"
ParsedPositions(ls) ==
    SelectSeq([k \in 1..Len(ls) |-> k], LAMBDA k : ~Malformed(ls[k]))

\* xs without the tokens whose label has no "-"
WithoutMalformed(xs, ls) ==
    LET kept == ParsedPositions(ls) IN [j \in 1..Len(kept) |-> xs[kept[j]]]

\* C14 (as stated): a token whose label has no "-" is treated as if its label
\* were "O": the span list is the one bio_to_spans gives after every such
\* label has been replaced by "O" (an open span is closed at that token).
C14_Original ==
    SpansReturned =>
        spans = bio_to_spans(sorted_tokens[1], MalformedAsO(sorted_tokens[2]))

\* C14 (as amended): a token whose label has no "-" is skipped: the span list
\* is the one bio_to_spans gives after every such token has been taken out of
\* words and labels (an open span stays open across that token).
C14_MalformedTokenSkipped ==
    SpansReturned =>
        spans = bio_to_spans(WithoutMalformed(sorted_tokens[1], sorted_tokens[2]),
                             WithoutMalformed(sorted_tokens[2], sorted_tokens[2]))

\* B-parish, a label without "-", I-parish: one span of the first and the
\* third word
C14_Witness ==
    /\ SpansReturned
    /\ Len(sorted_tokens[2]) = 3
    /\ sorted_tokens[2][1] = <<"B", "parish">>
    /\ Malformed(sorted_tokens[2][2])
    /\ sorted_tokens[2][3] = <<"I", "parish">>
    /\ spans = << <<"parish", Join(<<sorted_tokens[1][1], sorted_tokens[1][3]>>)>> >>

\* text starts with the word w
StartsWith(text, w) == Len(text) >= Len(w) /\ SubSeq(text, 1, Len(w)) = w

\* C15: an I-X token met while no span is open (first token, or right behind
\* "O") starts a span of entity type X that begins with its word; for the
\* labels O, I-parish, B-parish the result is two parish spans, of the second
\* word alone and of the third.
C15_OrphanITagStartsTypedSpan ==
    SpansReturned =>
        LET ws == sorted_tokens[1]
            ls == sorted_tokens[2]
        IN /\ \A k \in 1..Len(ls) :
                  (IsITag(ls[k]) /\ (k = 1 \/ ls[k - 1] = O)) =>
                      \E s \in 1..Len(spans) :
                          spans[s][1] = ls[k][2] /\ StartsWith(spans[s][2], ws[k])
           /\ ls = <<O, <<"I", "parish">>, <<"B", "parish">>>> =>
                  spans = << <<"parish", ws[2]>>, <<"parish", ws[3]>> >>

\* the words of a span text, a word being one character here
WordsOfText(text) ==
    LET chars == SelectSeq(text, LAMBDA c : c # " ")
    IN [j \in 1..Len(chars) |-> <<chars[j]>>]

\* the words of all the spans, span after span
RECURSIVE WordsOfSpans(_)
WordsOfSpans(sp) ==
    IF sp = <<>> THEN <<>> ELSE WordsOfText(Head(sp)[2]) \o WordsOfSpans(Tail(sp))

\* the words of the tokens whose label holds a "-", in input order
WordsOfTaggedTokens(ws, ls) ==
    LET kept == SelectSeq([k \in 1..Len(ls) |-> k], LAMBDA k : HasDash(ls[k]))
    IN [j \in 1..Len(kept) |-> ws[kept[j]]]

\* C16: the spans are in input order and hold, each word once, exactly the
\* words of the tokens that are not dropped (label "O" or without "-"): read
\* span after span, the words of the spans are the words of the other tokens
\* in input order; no span is empty.
C16_SpanAssemblerGuarantee ==
    SpansReturned =>
        /\ WordsOfSpans(spans) = WordsOfTaggedTokens(sorted_tokens[1], sorted_tokens[2])
        /\ \A s \in 1..Len(spans) : spans[s][2] # <<>>

\* two spans out of three tokens, one of them dropped for its label without
\* "-", the tokens having come out of reading order
C16_Witness ==
    /\ SpansReturned
    /\ Reordered
    /\ Len(spans) = 2
    /\ \E k \in 1..Len(labels) : Malformed(labels[k])

\* bio_to_spans run on its own result: words [text_k], labels ["B-" + type_k].
\* "B-" + None raises TypeError, so a span without entity type ends the run
\* before bio_to_spans is entered.
Reassembled(sp) ==
    IF \E k \in 1..Len(sp) : sp[k][1] = NoEntity
    THEN [raised |-> "TypeError", spans |-> <<>>]
    ELSE [raised |-> "nothing",
          spans |-> bio_to_spans([k \in 1..Len(sp) |-> sp[k][2]],
                                 [k \in 1..Len(sp) |-> <<"B", sp[k][1]>>])]

\* C17: idempotence of span assembly: bio_to_spans run again on the words
\* [text_k] and the labels ["B-" + type_k] of its own spans returns the same
\* span list.
C17_Idempotence ==
    SpansReturned => Reassembled(spans) = [raised |-> "nothing", spans |-> spans]

(***************************************************************************)
(* sort_by_layout as a state machine                                       *)
(***************************************************************************)
SortLabelSet == {O, <<"B", "parish">>, <<"I", "parish">>}

\* boxes <<x1, y1, x2, y2>> on two lines and in two columns
SortBoxSet == {<<0, 0, 1, 1>>, <<1, 0, 2, 1>>, <<0, 1, 1, 2>>, <<1, 1, 2, 2>>}

\* bboxes may be empty, and shorter or longer than words
InitSort ==
    /\ \E n \in 0..MaxLen :
          /\ words = SubSeq(WordList, 1, n)
          /\ labels \in SeqsOfLen(SortLabelSet, n)
    /\ \E m \in 0..MaxLen : bboxes \in SeqsOfLen(SortBoxSet, m)
    /\ ppc = "sort"
    /\ sorted_tokens = <<>>
    /\ spans = <<>>
    /\ page = None
    /\ issues = <<>>
    /\ EvalIdle
    /\ LLMIdle
    /\ RunIdle
    /\ SaverIdle

\* the whole call: sort_by_layout(words, bboxes, labels)
SortCall ==
    /\ ppc = "sort"
    /\ sorted_tokens' = sort_by_layout(words, bboxes, labels)
    /\ ppc' = "sort_returned"
    /\ UNCHANGED <<words, bboxes, labels, spans, page, issues>>
    /\ UNCHANGED evalVars
    /\ UNCHANGED llmVars
    /\ UNCHANGED runVars
    /\ UNCHANGED saverVars

NextSort == SortCall

SpecSort == InitSort /\ [][NextSort]_vars

(***************************************************************************)
(* Properties of sort_by_layout                                            *)
(***************************************************************************)
\* (y1, x1) of box b1 is not behind (y1, x1) of box b2
KeyNotAfter(b1, b2) == b1[2] < b2[2] \/ (b1[2] = b2[2] /\ b1[1] <= b2[1])

\* where the tokens of the result stood in the input: token i carries a word
\* of its own, so the k-th word of the result names its place in words
Origin(out_words, in_words) ==
    [k \in 1..Len(out_words) |->
        IF \E i \in 1..Len(in_words) : in_words[i] = out_words[k]
        THEN CHOOSE i \in 1..Len(in_words) : in_words[i] = out_words[k]
        ELSE 0]

\* C18: with bboxes non-empty and as long as words, sort_by_layout returns a
\* permutation of the tokens in ascending order of (y1, x1), every word
\* still with its own label; with bboxes empty or of another length it
\* returns words and labels unchanged; the call has no other outcome.
C18_SortByLayout ==
    /\ ppc \in {"sort", "sort_returned"}
    /\ ppc = "sort_returned" =>
          IF bboxes # <<>> /\ Len(bboxes) = Len(words)
          THEN LET p == Origin(sorted_tokens[1], words)
               IN /\ Len(sorted_tokens[1]) = Len(words)
                  /\ Len(sorted_tokens[2]) = Len(words)
                  /\ \A k \in 1..Len(words) : \E j \in 1..Len(words) : p[j] = k
                  /\ \A k \in 1..Len(words) : sorted_tokens[2][k] = labels[p[k]]
                  /\ \A k \in 1..(Len(words) - 1) :
                        KeyNotAfter(bboxes[p[k]], bboxes[p[k + 1]])
          ELSE sorted_tokens = <<words, labels>>

\* three tokens with different labels handed over out of order, two of them
\* on one line with the right one first
C18_Witness ==
    /\ ppc = "sort_returned"
    /\ Len(words) = 3 /\ Len(bboxes) = 3
    /\ sorted_tokens[1] # words
    /\ sorted_tokens[2] # labels
    /\ \E i, j \in 1..3 :
          i < j /\ bboxes[i][2] = bboxes[j][2] /\ bboxes[i][1] > bboxes[j][1]

(***************************************************************************)
(* Properties of build_page_json: last write wins                          *)
(***************************************************************************)
\* the text of the last span of type typ among sp[lo..hi], None without one
LastTextIn(sp, typ, lo, hi) ==
    LET at == {k \in lo..hi : sp[k][1] = typ}
    IN IF at = {} THEN None
       ELSE sp[CHOOSE k \in at : \A j \in at : j <= k][2]

\* the positions of the parish spans in sp
ParishPositions(sp) ==
    SelectSeq([k \in 1..Len(sp) |-> k], LAMBDA k : sp[k][1] = "parish")

\* C19: last write wins: the page_number (the deanery) of the returned record
\* is the text of the last page_number (deanery) span, and the dedication and
\* the building_material of an entry are the texts of the last such spans
\* between the spans written before into that entry and the next parish span.
C19_LastWriteWins ==
    ppc = "done" =>
        LET at == ParishPositions(spans)
            From(e) == IF e = 1 THEN 1 ELSE at[e] + 1
            To(e) == IF e = Len(at) THEN Len(spans) ELSE at[e + 1] - 1
        IN /\ page.page_number = LastTextIn(spans, "page_number", 1, Len(spans))
           /\ page.deanery = LastTextIn(spans, "deanery", 1, Len(spans))
           /\ Len(page.entries) = Len(at)
           /\ \A e \in 1..Len(at) :
                 /\ page.entries[e].dedication =
                        LastTextIn(spans, "dedication", From(e), To(e))
                 /\ page.entries[e].building_material =
                        LastTextIn(spans, "building_material", From(e), To(e))

\* a parish span and two dedication spans behind it: the entry holds the
\* second dedication
C19_Witness ==
    /\ ppc = "done"
    /\ Len(spans) = 3
    /\ spans[1][1] = "parish" /\ spans[2][1] = "dedication" /\ spans[3][1] = "dedication"
    /\ Len(page.entries) = 1
    /\ page.entries[1].dedication = spans[3][2]
    /\ page.entries[1].dedication # spans[2][2]

(***************************************************************************)
(* The core: any one of the entry points, called once                      *)
(***************************************************************************)
InitCore == InitEval \/ InitParse \/ InitValidate \/ InitSort

NextCore == NextEval \/ NextParse \/ NextValidate \/ NextSort

SpecCore == InitCore /\ [][NextCore]_vars

\* the positions of evaluate_json_response from which the next step is taken,
\* and those of a call that has returned or was never made
EvalPositions == {"start", "entries", "rates", "done", "idle"}

\* the same for build_page_json, validate_bio_tags and sort_by_layout
ParserPositions ==
    {"start", "sorted", "spans", "done", "validate", "validated", "sort", "sort_returned",
     "idle"}

AllO(ls) == \A k \in 1..Len(ls) : ls[k] = O

\* C20: the core never raises: no call reaches an error state, every call is
\* at a position it goes on from or has returned at; zero tokens or all-"O" labels give the page
\* record without entries and no validator issue; with no predicted entry
\* every ground-truth entry counts as FN, with no ground-truth entry every
\* predicted entry counts as FP, and a ground-truth parish without a match
\* counts as FN.
C20_CoreNeverRaises ==
    /\ pc # "error" /\ ppc # "error"
    /\ pc \in EvalPositions /\ ppc \in ParserPositions
    /\ (ppc = "done" /\ AllO(labels)) => page = PageRecord(None, None, <<>>)
    /\ (ppc = "validated" /\ AllO(labels)) => issues = <<>>
    /\ pc = "done" =>
          /\ metrics["parish"].FN = unmatched_gt
          /\ pred_json.entries = <<>> =>
                \A f \in EntryFieldSet :
                    Counts(metrics)[f] = <<0, 0, Len(gt_json.entries)>>
          /\ gt_json.entries = <<>> =>
                \A f \in EntryFieldSet :
                    Counts(metrics)[f] = <<0, Len(pred_json.entries), 0>>

\* an evaluation that returned with a ground-truth parish that found no
\* match, a predicted entry left over and another pair matched
C20_Witness ==
    /\ pc = "done"
    /\ unmatched_gt >= 1
    /\ available_parishes # <<>>
    /\ pairs # <<>>

(***************************************************************************)
(* Calls one after another: the same function is called again with new     *)
(* arguments; what the locals of the call before held is still in memory   *)
(* where the new call starts.                                              *)
(***************************************************************************)
RepeatLabelSet == {O, <<"B", "parish">>}

\* arguments of a parser function that is called again and again
RepeatParseInputs(ws, bbs, ls) ==
    \E n \in 0..MaxLen :
        /\ ws = SubSeq(WordList, 1, n)
        /\ ls \in SeqsOfLen(RepeatLabelSet, n)
        /\ bbs \in SeqsOfLen(BoxSet, n) \cup {<<>>}

InitRepeat ==
    /\ LLMIdle
    /\ RunIdle
    /\ SaverIdle
    /\ \/ /\ PageFamily(pred_json, gt_json)
          /\ pc = "start"
          /\ metrics = [f \in MetricFields |-> _init_metrics]
          /\ available_parishes = <<>>
          /\ gi = 1
          /\ pairs = <<>>
          /\ unmatched_gt = 0
          /\ ParseIdle
       \/ /\ \/ RepeatParseInputs(words, bboxes, labels) /\ ppc \in {"start", "sort"}
             \/ /\ \E n \in 0..MaxLen : labels \in SeqsOfLen(SortLabelSet, n)
                /\ words = <<>> /\ bboxes = <<>> /\ ppc = "validate"
          /\ sorted_tokens = <<>>
          /\ spans = <<>>
          /\ page = None
          /\ issues = <<>>
          /\ EvalIdle

\* evaluate_json_response has returned and is called with other arguments
EvalAgain ==
    /\ pc = "done"
    /\ PageFamily(pred_json', gt_json')
    /\ pc' = "start"
    /\ UNCHANGED <<metrics, available_parishes, gi, pairs, unmatched_gt>>
    /\ UNCHANGED parseVars
    /\ UNCHANGED llmVars
    /\ UNCHANGED runVars
    /\ UNCHANGED saverVars

\* build_page_json has returned and is called with other arguments
ParseAgain ==
    /\ ppc = "done"
    /\ RepeatParseInputs(words', bboxes', labels')
    /\ ppc' = "start"
    /\ UNCHANGED <<sorted_tokens, spans, page, issues>>
    /\ UNCHANGED evalVars
    /\ UNCHANGED llmVars
    /\ UNCHANGED runVars
    /\ UNCHANGED saverVars

\* sort_by_layout has returned and is called with other arguments
SortAgain ==
    /\ ppc = "sort_returned"
    /\ RepeatParseInputs(words', bboxes', labels')
    /\ ppc' = "sort"
    /\ UNCHANGED <<sorted_tokens, spans, page, issues>>
    /\ UNCHANGED evalVars
    /\ UNCHANGED llmVars
    /\ UNCHANGED runVars
    /\ UNCHANGED saverVars

\* validate_bio_tags has returned and is called with other labels
ValidateAgain ==
    /\ ppc = "validated"
    /\ \E n \in 0..MaxLen : labels' \in SeqsOfLen(SortLabelSet, n)
    /\ ppc' = "validate"
    /\ UNCHANGED <<words, bboxes, sorted_tokens, spans, page, issues>>
    /\ UNCHANGED evalVars
    /\ UNCHANGED llmVars
    /\ UNCHANGED runVars
    /\ UNCHANGED saverVars

NextRepeat == NextCore \/ EvalAgain \/ ParseAgain \/ SortAgain \/ ValidateAgain

SpecRepeat == InitRepeat /\ [][NextRepeat]_vars

(***************************************************************************)
(* Properties of the core as a whole                                       *)
(***************************************************************************)
\* a step inside a call, not the step that makes the next call
InsideEvalCall == pc' # "start"
InsideParserCall == ppc' \notin {"start", "sort", "validate"}

\* C21: the core functions are pure and stateless: no step of a call changes
\* an argument of the call, and what a call returns is the function of its
\* own arguments, whatever the calls before it were and left behind.
C21_PureAndStateless ==
    /\ [](/\ pc = "done" =>
                /\ ~evaluate_json_response(pred_json, gt_json).raised
                /\ metrics = evaluate_json_response(pred_json, gt_json).metrics
          /\ ppc = "done" => page = build_page_json(words, bboxes, labels)
          /\ ppc = "spans" => spans = bio_to_spans(sorted_tokens[1], sorted_tokens[2])
          /\ ppc = "sort_returned" =>
                sorted_tokens = sort_by_layout(words, bboxes, labels)
          /\ ppc = "validated" => issues = validate_bio_tags(labels))
    /\ [][/\ InsideEvalCall => UNCHANGED <<pred_json, gt_json>>
          /\ InsideParserCall => UNCHANGED <<words, bboxes, labels>>]_vars

\* a call of build_page_json has sorted its tokens while the spans of the
\* call before, made with other arguments, are still in memory
C21_Witness ==
    /\ ppc = "sorted"
    /\ Reordered
    /\ sorted_tokens = sort_by_layout(words, bboxes, labels)
    /\ spans # <<>>
    /\ spans # bio_to_spans(sorted_tokens[1], sorted_tokens[2])

(***************************************************************************)
(* LLMModel.predict (core/models/llm/model.py).  What the interface hands  *)
(* back is None (the request failed), a str that is not JSON, or a str     *)
(* that is JSON: an object that fits PageData, another object, a list.     *)
(***************************************************************************)
NotJson == <<"not_json">>
JsonPageData == <<"json", "page_data">>
JsonOtherObject == <<"json", "other_object">>
JsonList == <<"json", "list">>

ContentSet == {None, NotJson, JsonPageData, JsonOtherObject, JsonList}

\* {"raw_response": ..., "error": message}
ErrorDict(message) == <<"error_dict", message>>

\* {"raw_response": response}
RawResponseDict == <<"raw_response_dict">>

\* the dict json.loads makes of a JSON object
ParsedDict(c) == <<"dict", c[2]>>

\* _predict behind the request: the branches on structured_output and on the
\* response; json.loads raises JSONDecodeError for a str that is not JSON
\* and the except branch returns the error dictionary.
_predict(structured, response) ==
    IF structured
    THEN IF response = None THEN ErrorDict("No response received")
         ELSE IF response = NotJson THEN ErrorDict("Failed to parse structured output")
         ELSE IF response \in {JsonPageData, JsonOtherObject} THEN ParsedDict(response)
         ELSE ErrorDict("Response is not a dictionary")
    ELSE RawResponseDict

\* LLMCacheItem(response=value, ...) passes validation: value fits PageData
FitsPageData(value) == value = ParsedDict(JsonPageData)

Returned(value) == <<"return", value>>
Raised(exception) == <<"raise", exception>>

\* pydantic's ValidationError and json's JSONDecodeError are subclasses of
\* ValueError
IsValueError(exception) == exception \in {"ValueError", "ValidationError", "JSONDecodeError"}

CacheItemValid == <<"item", "valid">>
CacheItemInvalid == <<"item", "invalid">>

InitLLM ==
    /\ llm_image \in {None, <<"image">>}
    /\ llm_text \in {None, <<"text">>}
    /\ enable_cache \in BOOLEAN
    /\ structured_output \in BOOLEAN
    /\ cache \in {None, CacheItemValid, CacheItemInvalid}
    /\ content \in ContentSet
    /\ messages = <<>>
    /\ prediction = None
    /\ lpc = "predict"
    /\ outcome = None
    /\ EvalIdle
    /\ ParseIdle
    /\ RunIdle
    /\ SaverIdle

\* predict: the check of the arguments and the branch on enable_cache
LLMPredictStart ==
    /\ lpc = "predict"
    /\ IF llm_image = None /\ llm_text = None
       THEN outcome' = Raised("ValueError") /\ lpc' = "raised"
       ELSE outcome' = outcome /\ lpc' = IF enable_cache THEN "cache_get" ELSE "call"
    /\ UNCHANGED <<llm_image, llm_text, enable_cache, structured_output, cache, content,
                   messages, prediction>>
    /\ UNCHANGED <<evalVars, parseVars, runVars, saverVars>>

\* predict: the cache is asked; a valid item is returned, an invalid one deleted
LLMCacheGet ==
    /\ lpc = "cache_get"
    /\ IF cache = CacheItemValid
       THEN outcome' = Returned(ParsedDict(JsonPageData)) /\ lpc' = "returned"
                /\ cache' = cache
       ELSE outcome' = outcome /\ lpc' = "call" /\ cache' = None
    /\ UNCHANGED <<llm_image, llm_text, enable_cache, structured_output, content,
                   messages, prediction>>
    /\ UNCHANGED <<evalVars, parseVars, runVars, saverVars>>

\* the call of _predict; without cache its value is returned
LLMCallPredict ==
    /\ lpc = "call"
    /\ messages' = <<"system", "user">>
    /\ prediction' = _predict(structured_output, content)
    /\ IF enable_cache
       THEN outcome' = outcome /\ lpc' = "cache_set"
       ELSE outcome' = Returned(prediction') /\ lpc' = "returned"
    /\ UNCHANGED <<llm_image, llm_text, enable_cache, structured_output, cache, content>>
    /\ UNCHANGED <<evalVars, parseVars, runVars, saverVars>>

\* predict: LLMCacheItem(response=...) is built (and validated), stored, and
\* the response returned
LLMCacheSet ==
    /\ lpc = "cache_set"
    /\ IF FitsPageData(prediction)
       THEN cache' = CacheItemValid /\ outcome' = Returned(prediction) /\ lpc' = "returned"
       ELSE cache' = cache /\ outcome' = Raised("ValidationError") /\ lpc' = "raised"
    /\ UNCHANGED <<llm_image, llm_text, enable_cache, structured_output, content,
                   messages, prediction>>
    /\ UNCHANGED <<evalVars, parseVars, runVars, saverVars>>

NextLLM == LLMPredictStart \/ LLMCacheGet \/ LLMCallPredict \/ LLMCacheSet

SpecLLM == InitLLM /\ [][NextLLM]_vars

\* C22: in structured-output mode predict raises ValueError when what the
\* LLM returned is not valid JSON, and returns no result dictionary for it.
C22_MalformedJsonRaisesValueError ==
    (/\ lpc \in {"returned", "raised"}
     /\ structured_output
     /\ messages # <<>>
     /\ content = NotJson)
        => outcome[1] = "raise" /\ IsValueError(outcome[2])

(***************************************************************************)
(* C23: the greedy best match of the loop over gt_entries                  *)
(***************************************************************************)
\* the score of the pool's k-th name against the ground-truth parish name
PoolScore(gt_parish, pool, k) == scorer(gt_parish, pool[k])

NoPoolNameReachesCutoff(gt_parish, pool) ==
    \A k \in 1..Len(pool) : PoolScore(gt_parish, pool, k) < fuzzy_threshold

\* the entry fields of m2 are those of m1 with one more FN each
OneMoreFN(m1, m2) ==
    \A i \in 1..Len(entry_fields) :
        LET f == entry_fields[i]
        IN m2[f].FN = m1[f].FN + 1 /\ m2[f].TP = m1[f].TP /\ m2[f].FP = m1[f].FP

\* C23: the ground-truth entries are processed in list order; the entry at gi is
\* recorded unmatched (one FN per entry field, no exception) exactly when the
\* pool is empty or all its names score below the cutoff; otherwise it is paired
\* with a predicted entry whose parish is in the pool, scores at least the
\* cutoff, is not beaten by any name in the pool, and leaves the pool.
C23_GreedyBestMatch ==
    [][(pc = "entries" /\ gi <= Len(gt_json.entries)) =>
        LET gt_parish == gt_json.entries[gi].parish
            pool == available_parishes
            unmatched == /\ unmatched_gt' = unmatched_gt + 1
                         /\ pairs' = pairs
                         /\ available_parishes' = pool
                         /\ OneMoreFN(metrics, metrics')
        IN /\ gi' = gi + 1
           /\ pc' = "entries"
           /\ unmatched <=> NoPoolNameReachesCutoff(gt_parish, pool)
           /\ ~NoPoolNameReachesCutoff(gt_parish, pool) =>
                \E b \in 1..Len(pred_json.entries), k \in 1..Len(pool) :
                    /\ pairs' = Append(pairs, <<gi, b>>)
                    /\ unmatched_gt' = unmatched_gt
                    /\ pool[k] = pred_json.entries[b].parish
                    /\ PoolScore(gt_parish, pool, k) >= fuzzy_threshold
                    /\ \A j \in 1..Len(pool) :
                           PoolScore(gt_parish, pool, j) <= PoolScore(gt_parish, pool, k)
                    /\ available_parishes' =
                           SubSeq(pool, 1, k - 1) \o SubSeq(pool, k + 1, Len(pool))
      ]_vars

\* C23 witness: the first ground-truth entry went to the second predicted entry,
\* the best of two names reaching the cutoff, and a later entry found no name
\* reaching the cutoff in the pool that was left.
C23_Witness ==
    /\ pc = "entries"
    /\ Len(pairs) = 1 /\ pairs[1] = <<1, 2>>
    /\ scorer(gt_json.entries[1].parish, pred_json.entries[1].parish) >= fuzzy_threshold
    /\ unmatched_gt = 1
    /\ available_parishes # <<>>

(***************************************************************************)
(* C24: bio_to_spans on labels of any prefix                               *)
(***************************************************************************)
\* labels with the prefixes B and I and with another prefix, of two entity types
AssembleLabelSet == {O,
                     <<"B", "parish">>, <<"I", "parish">>, <<"X", "parish">>,
                     <<"B", "dedication">>, <<"I", "dedication">>, <<"X", "dedication">>}

InitAssemble ==
    /\ \E n \in 0..MaxLen :
          /\ words = SubSeq(WordList, 1, n)
          /\ labels \in SeqsOfLen(AssembleLabelSet, n)
    /\ bboxes = <<>>
    /\ ppc = "start"
    /\ sorted_tokens = <<>>
    /\ spans = <<>>
    /\ page = None
    /\ issues = <<>>
    /\ EvalIdle
    /\ LLMIdle
    /\ RunIdle
    /\ SaverIdle

SpecAssemble == InitAssemble /\ [][NextParse]_vars

\* buff, ent_type and spans of bio_to_spans(ws, ls) when its loop reaches token i
LoopStateAt(ws, ls, i) ==
    BioLoop(SubSeq(ws, 1, i - 1), SubSeq(ls, 1, i - 1), SpanState(<<>>, <<>>, NoEntity), 1)

\* the spans bio_to_spans returns from the loop state st
Flushed(st) ==
    IF st.buff # <<>> THEN Append(st.spans, <<st.ent_type, Join(st.buff)>>) ELSE st.spans

\* C24: while a span of type X is open, a token labelled B-Y (Y = X included),
\* or labelled with any prefix and an entity type Y other than X, closes the
\* open span and opens a span of type Y holding that word alone; a token of
\* another prefix than B and of type X is appended to the open span, which is
\* not closed.
C24_TypeChangeClosesSpan ==
    SpansReturned =>
        LET ws == sorted_tokens[1]
            ls == sorted_tokens[2]
        IN /\ spans = Flushed(LoopStateAt(ws, ls, Len(ls) + 1))
           /\ \A i \in 1..Len(ls) :
                LET before == LoopStateAt(ws, ls, i)
                    after == LoopStateAt(ws, ls, i + 1)
                    X == before.ent_type
                IN (before.buff # <<>> /\ X # NoEntity /\ HasDash(ls[i])) =>
                      IF ls[i][1] = "B" \/ ls[i][2] # X
                      THEN /\ after.spans = Append(before.spans, <<X, Join(before.buff)>>)
                           /\ after.buff = <<ws[i]>>
                           /\ after.ent_type = ls[i][2]
                      ELSE /\ after.spans = before.spans
                           /\ after.buff = Append(before.buff, ws[i])
                           /\ after.ent_type = X

\* C24 witness: I-parish is appended to the open parish span, X-dedication
\* closes it and opens a dedication span.
C24_Witness ==
    /\ ppc = "spans"
    /\ labels = << <<"B", "parish">>, <<"I", "parish">>, <<"X", "dedication">> >>
    /\ spans = << <<"parish", <<"a", " ", "b">> >>, <<"dedication", <<"c">> >> >>

(***************************************************************************)
(* C25: validate_bio_tags and bio_to_spans on the same labels              *)
(***************************************************************************)
InitAgree ==
    /\ \E n \in 0..MaxLen :
          /\ words = SubSeq(WordList, 1, n)
          /\ labels \in SeqsOfLen(ValidateLabelSet, n)
    /\ bboxes = <<>>
    /\ ppc = "validate"
    /\ sorted_tokens = <<>>
    /\ spans = <<>>
    /\ page = None
    /\ issues = <<>>
    /\ EvalIdle
    /\ LLMIdle
    /\ RunIdle
    /\ SaverIdle

\* spans = bio_to_spans(words, labels), on the labels that were validated
AssembleCall ==
    /\ ppc = "validated"
    /\ spans' = bio_to_spans(words, labels)
    /\ ppc' = "assembled"
    /\ UNCHANGED <<words, bboxes, labels, sorted_tokens, page, issues>>
    /\ UNCHANGED evalVars
    /\ UNCHANGED llmVars
    /\ UNCHANGED runVars
    /\ UNCHANGED saverVars

NextAgree == ValidateCall \/ AssembleCall

SpecAgree == InitAgree /\ [][NextAgree]_vars

\* the position in ws of the word w (the words of ws are distinct)
PositionOf(ws, w) == CHOOSE k \in 1..Len(ws) : ws[k] = w

\* C25: when validate_bio_tags returned no issue for the labels, every span
\* bio_to_spans returns for them has an entity type, and each of its tokens
\* carries a label of that type.
C25_ValidatorAndAssemblerAgree ==
    (ppc = "assembled" /\ issues = <<>>) =>
        \A s \in 1..Len(spans) :
            /\ spans[s][1] # NoEntity
            /\ \A j \in 1..Len(WordsOfText(spans[s][2])) :
                   LET k == PositionOf(words, WordsOfText(spans[s][2])[j])
                   IN HasDash(labels[k]) /\ labels[k][2] = spans[s][1]

(***************************************************************************)
(* Parser.parse_page (core/data/translation_parser.py)                     *)
(* A mapping is the list of its <<key, value>> items, in the order of the  *)
(* dictionary.                                                             *)
(***************************************************************************)
building_material_mapping == << <<S_ab, S_bc>> >>
dedication_mapping == << <<S_bc, S_abc>> >>

\* thefuzz.utils.full_process: characters that are no letters or digits become
\* blanks, lower case, blanks at both ends stripped
FullProcessChar(c) == IF c \in {".", ",", ";", " "} THEN " " ELSE
                      IF c = "A_acute" THEN "a_acute" ELSE LowerChar(c)

RECURSIVE StripBlanks(_)
StripBlanks(s) ==
    IF s # <<>> /\ Head(s) = " " THEN StripBlanks(Tail(s))
    ELSE IF s # <<>> /\ s[Len(s)] = " " THEN StripBlanks(SubSeq(s, 1, Len(s) - 1))
    ELSE s

full_process(s) == StripBlanks([i \in 1..Len(s) |-> FullProcessChar(s[i])])

\* fuzz.ratio before rounding, in whole percent rounded down: the normalized
\* Indel similarity, 100 for two empty strings
fuzzy_scorer(s1, s2) ==
    IF s1 = <<>> /\ s2 = <<>> THEN 100
    ELSE (200 * LCS(s1, s2)) \div (Len(s1) + Len(s2))

\* process.extractOne(text, keys, scorer=fuzz.ratio, score_cutoff=80) of thefuzz:
\* query and choices go through full_process; the index of the first key with
\* the highest score reaching the cutoff, 0 for "no match"
fuzzy_match(text, mapping) ==
    LET q == full_process(text)
        Score(i) == fuzzy_scorer(q, full_process(mapping[i][1]))
        reaching == {i \in 1..Len(mapping) : Score(i) >= fuzzy_threshold}
    IN IF reaching = {} THEN 0
       ELSE CHOOSE i \in reaching :
               \A j \in reaching : Score(j) < Score(i) \/ (Score(j) = Score(i) /\ i <= j)

\* Python's "sub in text" on strings
IsSubstring(sub, text) ==
    \E i \in 0..(Len(text) - Len(sub)) : SubSeq(text, i + 1, i + Len(sub)) = sub

FuzzyValue(text, mapping) ==
    LET i == fuzzy_match(text, mapping)
    IN IF i = 0 THEN None ELSE mapping[i][2]

_parse_building_material(text) ==
    IF \E i \in 1..Len(building_material_mapping) : building_material_mapping[i][1] = text
    THEN building_material_mapping[
             CHOOSE i \in 1..Len(building_material_mapping) :
                 /\ building_material_mapping[i][1] = text
                 /\ \A j \in 1..(i - 1) : building_material_mapping[j][1] # text][2]
    ELSE FuzzyValue(text, building_material_mapping)

DedicationHit(i, text) ==
    \/ IsSubstring(dedication_mapping[i][1], text)
    \/ IsSubstring(dedication_mapping[i][2], text)

_parse_dedication(text) ==
    IF \E i \in 1..Len(dedication_mapping) : DedicationHit(i, text)
    THEN dedication_mapping[
             CHOOSE i \in 1..Len(dedication_mapping) :
                 /\ DedicationHit(i, text)
                 /\ \A j \in 1..(i - 1) : ~DedicationHit(j, text)][2]
    ELSE FuzzyValue(text, dedication_mapping)

\* a deep copy of the page whose entries carry the translated building_material
\* and dedication (None for a value that is None or empty)
parse_page(page_json) ==
    [page_json EXCEPT !.entries =
        [i \in 1..Len(page_json.entries) |->
            [page_json.entries[i] EXCEPT
                !.building_material =
                    IF Truthy(page_json.entries[i].building_material)
                    THEN _parse_building_material(page_json.entries[i].building_material)
                    ELSE None,
                !.dedication =
                    IF Truthy(page_json.entries[i].dedication)
                    THEN _parse_dedication(page_json.entries[i].dedication)
                    ELSE None]]]

(***************************************************************************)
(* EvaluationRunner.run, the body of its loop for one sample               *)
(***************************************************************************)
\* The sample's ground truth and the dictionary the LLM answered with (an
\* answer that fits PageData).
RunEntrySet == {Entry(p, d, None) : p \in {S_abc, S_bc, S_ab}, d \in {None, S_bc}}

InitRun ==
    /\ results_json \in {PageRecord(None, None, es) : es \in SeqsUpTo(RunEntrySet, MaxGt)}
    /\ llm_prediction \in
           {PageRecord(None, None, es) :
                es \in SeqsUpTo({Entry(p, S_bc, S_ab) : p \in {S_abc, S_bc, S_ab}}, MaxPred)}
    /\ parsed_llm_prediction = PageRecord(None, None, <<>>)
    /\ rpc = "sample"
    /\ EvalIdle
    /\ ParseIdle
    /\ LLMIdle
    /\ SaverIdle

\* a sample with entries: parsed_llm_prediction = self.parser.parse_page(...),
\* metrics = evaluate_json_response(results_json, parsed_llm_prediction)
RunSample ==
    /\ rpc = "sample"
    /\ Len(results_json.entries) # 0
    /\ parsed_llm_prediction' = parse_page(llm_prediction)
    /\ metrics' = evaluate_json_response(results_json, parsed_llm_prediction').metrics
    /\ rpc' = "logged"
    /\ UNCHANGED <<results_json, llm_prediction>>
    /\ UNCHANGED <<pred_json, gt_json, pc, available_parishes, gi, pairs, unmatched_gt>>
    /\ UNCHANGED parseVars
    /\ UNCHANGED llmVars
    /\ UNCHANGED saverVars

\* if len(results_json["entries"]) == 0: continue
RunSkipSample ==
    /\ rpc = "sample"
    /\ Len(results_json.entries) = 0
    /\ rpc' = "skipped"
    /\ UNCHANGED <<results_json, llm_prediction, parsed_llm_prediction>>
    /\ UNCHANGED evalVars
    /\ UNCHANGED parseVars
    /\ UNCHANGED llmVars
    /\ UNCHANGED saverVars

NextRun == RunSample \/ RunSkipSample

SpecRun == InitRun /\ [][NextRun]_vars

\* the entries of page a whose parish reaches the cutoff against no parish of page b
OnlyIn(a, b) ==
    {i \in 1..Len(a.entries) :
        \A j \in 1..Len(b.entries) :
            scorer(a.entries[i].parish, b.entries[j].parish) < fuzzy_threshold}

\* C26: the metrics of a sample take the parsed LLM output as the prediction and
\* the dataset JSON as the ground truth: every entry found only in the LLM
\* output is an FP and every entry found only in the ground truth is an FN, for
\* each entry field; these are all the FP and FN of parish when no entry of one
\* side matches an entry of the other.
C26_LLMOutputIsThePrediction ==
    rpc = "logged" =>
        LET only_llm == Cardinality(OnlyIn(parsed_llm_prediction, results_json))
            only_gt == Cardinality(OnlyIn(results_json, parsed_llm_prediction))
        IN /\ \A i \in 1..Len(entry_fields) :
                  /\ metrics[entry_fields[i]].FP >= only_llm
                  /\ metrics[entry_fields[i]].FN >= only_gt
           /\ (only_llm = Len(parsed_llm_prediction.entries)
                   /\ only_gt = Len(results_json.entries)) =>
                  /\ metrics["parish"].FP = only_llm
                  /\ metrics["parish"].FN = only_gt

(***************************************************************************)
(* C27: the entry a dedication or building_material span goes to           *)
(***************************************************************************)
\* the entry of the span at position k: that of the nearest parish span before
\* k, the first entry when no parish span comes before k (at: the positions of
\* the parish spans, not empty)
EntryOfSpan(at, k) ==
    IF k < at[1] THEN 1
    ELSE CHOOSE e \in 1..Len(at) : at[e] < k /\ (e = Len(at) \/ k < at[e + 1])

\* a later span of the same type goes to the same entry as the span at k
Overwritten(sp, at, k) ==
    \E j \in (k + 1)..Len(sp) :
        /\ sp[j][1] = sp[k][1]
        /\ EntryOfSpan(at, j) = EntryOfSpan(at, k)

\* C27: a dedication or building_material span is stored in the entry of the
\* nearest parish span before it, and in the first entry when it comes before
\* the first parish span, unless a later span of its type overwrites it there;
\* it is stored in no other entry; without any parish span the record has no
\* entries and the span is dropped.
C27_FieldGoesToNearestPrecedingParish ==
    ppc = "done" =>
        LET at == ParishPositions(spans)
        IN \A k \in 1..Len(spans) :
              spans[k][1] \in {"dedication", "building_material"} =>
                  IF at = <<>> THEN page.entries = <<>>
                  ELSE /\ Len(page.entries) = Len(at)
                       /\ \A e \in 1..Len(at) :
                             (page.entries[e][spans[k][1]] = spans[k][2])
                                 <=> (e = EntryOfSpan(at, k) /\ ~Overwritten(spans, at, k))

\* C27 witness: a dedication span before the first of two parish spans is in
\* the first entry and not in the second.
C27_Witness ==
    /\ ppc = "done"
    /\ Len(spans) = 3
    /\ spans[1][1] = "dedication" /\ spans[2][1] = "parish" /\ spans[3][1] = "parish"
    /\ Len(page.entries) = 2
    /\ page.entries[1].dedication = spans[1][2]
    /\ page.entries[2].dedication = None

(***************************************************************************)
(* C28: build_page_json and the input order of the tokens                  *)
(***************************************************************************)
PermuteLabelSet == {O, <<"B", "parish">>, <<"I", "parish">>, <<"B", "dedication">>}

\* one bounding box a word
InitPermute ==
    /\ \E n \in 0..MaxLen :
          /\ words = SubSeq(WordList, 1, n)
          /\ labels \in SeqsOfLen(PermuteLabelSet, n)
          /\ bboxes \in SeqsOfLen(SortBoxSet, n)
    /\ ppc = "start"
    /\ sorted_tokens = <<>>
    /\ spans = <<>>
    /\ page = None
    /\ issues = <<>>
    /\ EvalIdle
    /\ LLMIdle
    /\ RunIdle
    /\ SaverIdle

SpecPermute == InitPermute /\ [][NextParse]_vars

SortKey(b) == <<b[2], b[1]>>

DistinctKeys(bbs) ==
    \A i, j \in 1..Len(bbs) : i # j => SortKey(bbs[i]) # SortKey(bbs[j])

Permuted(s, p) == [k \in 1..Len(s) |-> s[p[k]]]

\* C28: with one box a word and all keys (y1, x1) distinct, the record
\* build_page_json returns is the same for every permutation applied to words,
\* bboxes and labels together; tokens of equal keys stand in the sorted
\* sequence in their input order.
C28_InputOrderIndependence ==
    (ppc = "done" /\ bboxes # <<>> /\ Len(bboxes) = Len(words)) =>
        /\ DistinctKeys(bboxes) =>
              \A p \in Permutations(1..Len(words)) :
                  build_page_json(Permuted(words, p), Permuted(bboxes, p),
                                  Permuted(labels, p)) = page
        /\ LET origin == Origin(sorted_tokens[1], words)
           IN \A k1, k2 \in 1..Len(origin) :
                  (k1 < k2 /\ SortKey(bboxes[origin[k1]]) = SortKey(bboxes[origin[k2]]))
                      => origin[k1] < origin[k2]

\* C28 witness: three tokens of distinct keys that are handed over out of
\* reading order and build a record with an entry.
C28_Witness ==
    /\ ppc = "done"
    /\ Len(words) = 3 /\ Len(bboxes) = 3
    /\ DistinctKeys(bboxes)
    /\ sorted_tokens[1] # words
    /\ page.entries # <<>>
    /\ page.entries[1].dedication # None

(***************************************************************************)
(* C29: bounds of the counters                                             *)
(***************************************************************************)
\* C29: in the returned metrics, for every entry field TP + FN is at most the
\* number of ground-truth entries and TP + FP at most the number of predicted
\* entries, both with equality for parish; for page_number and deanery
\* TP + FP + FN is at most 2, and TP = 1 leaves FP = FN = 0.
C29_CounterBounds ==
    pc = "done" =>
        /\ \A i \in 1..Len(entry_fields) :
              LET m == metrics[entry_fields[i]]
              IN /\ m.TP + m.FN <= Len(gt_json.entries)
                 /\ m.TP + m.FP <= Len(pred_json.entries)
        /\ metrics["parish"].TP + metrics["parish"].FN = Len(gt_json.entries)
        /\ metrics["parish"].TP + metrics["parish"].FP = Len(pred_json.entries)
        /\ \A i \in 1..Len(PageFields) :
              LET m == metrics[PageFields[i]]
              IN /\ m.TP + m.FP + m.FN <= 2
                 /\ m.TP = 1 => (m.FP = 0 /\ m.FN = 0)

\* C29 witness: a page-level hit, a matched pair, an unmatched ground-truth
\* entry and predictions left over, with a field whose counters stay below
\* the bound.
C29_Witness ==
    /\ pc = "done"
    /\ metrics["page_number"].TP = 1
    /\ pairs # <<>> /\ unmatched_gt > 0 /\ available_parishes # <<>>
    /\ metrics["dedication"].TP + metrics["dedication"].FN < Len(gt_json.entries)

(***************************************************************************)
(* MappingSaver (core/utils/mapping_utils.py)                              *)
(* The data of a page is <<"dict", entries>>, or <<"no_entries">> for a    *)
(* dictionary without the key "entries".  self._mappings is the set of the *)
(* items <<field, latin, polish>>, one item a field and latin value.  The  *)
(* mapping files are None before the first write, then <<"written", items>>.*)
(***************************************************************************)
MaxBatch == 2    \* largest batch_size
MaxIdx == 3      \* most matched pairs of a run

_MAPPING_FILES == <<"deanery", "parish", "dedication", "building_material">>

SaverEntry(dn, p, d, b) ==
    [deanery |-> dn, parish |-> p, dedication |-> d, building_material |-> b]

S_Ab == <<"A", "b">>

NoEntriesData == <<"no_entries">>

DictData(entries) == <<"dict", entries>>

\* PageData.parse_obj: "entries" is required, and so is a string as the parish
\* of every entry
Parses(data) ==
    /\ data[1] = "dict"
    /\ \A i \in 1..Len(data[2]) : data[2][i].parish # None

\* what the LLM answered for a page
LatinPages ==
    {NoEntriesData,
     DictData(<<>>),
     DictData(<<SaverEntry(None, None, None, None)>>),
     DictData(<<SaverEntry(None, <<>>, S_bc, None)>>),
     DictData(<<SaverEntry(None, S_Ab, S_bc, None)>>),
     DictData(<<SaverEntry(S_bc, S_Ab, None, None), SaverEntry(S_bc, S_abc, S_bc, None)>>)}

\* the ground truth of a page
PolishPages ==
    {NoEntriesData,
     DictData(<<>>),
     DictData(<<SaverEntry(None, S_ab, S_ab, None)>>),
     DictData(<<SaverEntry(S_ab, S_abc, S_ab, None), SaverEntry(S_ab, S_ab, None, None)>>)}

\* Python's round(num / den) for num >= 0, den > 0: halves go to the even side
PyRound(num, den) ==
    LET q == num \div den
        r == num % den
    IN IF 2 * r > den THEN q + 1
       ELSE IF 2 * r < den THEN q
       ELSE IF q % 2 = 0 THEN q ELSE q + 1

\* thefuzz fuzz.ratio: the Indel similarity in percent, rounded to an integer
ratio(s1, s2) ==
    IF s1 = <<>> /\ s2 = <<>> THEN 100
    ELSE PyRound(200 * LCS(s1, s2), Len(s1) + Len(s2))

\* the inner loop of _match_entries over polish_entries, from index i on:
\* best is <<best_idx, best_score>>, best_idx = 0 for "no match yet"
RECURSIVE BestPolish(_, _, _, _, _)
BestPolish(latin_entry, polish_entries, used, i, best) ==
    IF i > Len(polish_entries) THEN best[1]
    ELSE IF i \in used \/ ~Truthy(polish_entries[i].parish)
    THEN BestPolish(latin_entry, polish_entries, used, i + 1, best)
    ELSE LET score == ratio(Lower(latin_entry.parish), Lower(polish_entries[i].parish))
         IN IF score > best[2] /\ score > 80
            THEN BestPolish(latin_entry, polish_entries, used, i + 1, <<i, score>>)
            ELSE BestPolish(latin_entry, polish_entries, used, i + 1, best)

\* _match_entries from the latin entry i on; matched_pairs holds pairs of indices
RECURSIVE MatchFrom(_, _, _, _, _)
MatchFrom(latin_entries, polish_entries, i, used, matched_pairs) ==
    IF i > Len(latin_entries) THEN matched_pairs
    ELSE IF ~Truthy(latin_entries[i].parish)
    THEN MatchFrom(latin_entries, polish_entries, i + 1, used, matched_pairs)
    ELSE LET best_idx == BestPolish(latin_entries[i], polish_entries, used, 1, <<0, 0>>)
         IN IF best_idx = 0
            THEN MatchFrom(latin_entries, polish_entries, i + 1, used, matched_pairs)
            ELSE MatchFrom(latin_entries, polish_entries, i + 1, used \cup {best_idx},
                           Append(matched_pairs, <<i, best_idx>>))

_match_entries(latin_entries, polish_entries) ==
    MatchFrom(latin_entries, polish_entries, 1, {}, <<>>)

SaverState(i, m, c) == [idx |-> i, _mappings |-> m, csv |-> c]

\* self._mappings[field][latin_value] = polish_value
SetItem(m, field, latin_value, polish_value) ==
    {it \in m : ~(it[1] = field /\ it[2] = latin_value)}
        \cup {<<field, latin_value, polish_value>>}

\* "for field in self._MAPPING_FILES.keys()" for one matched pair, from field f on
RECURSIVE FieldsFrom(_, _, _, _, _)
FieldsFrom(st, id, latin_entry, polish_entry, f) ==
    IF f > Len(_MAPPING_FILES) THEN st
    ELSE LET field == _MAPPING_FILES[f]
             latin_value == latin_entry[field]
             polish_value == polish_entry[field]
         IN IF Truthy(latin_value) /\ Truthy(polish_value)
            THEN FieldsFrom(SaverState(st.idx,
                                       SetItem(st._mappings, field, latin_value, polish_value),
                                       Append(st.csv, <<field, id, latin_value, polish_value>>)),
                            id, latin_entry, polish_entry, f + 1)
            ELSE FieldsFrom(st, id, latin_entry, polish_entry, f + 1)

\* "for latin_entry, polish_entry in matched_pairs", from pair k on
RECURSIVE PairsFrom(_, _, _, _, _)
PairsFrom(st, latin_entries, polish_entries, matched_pairs, k) ==
    IF k > Len(matched_pairs) THEN st
    ELSE PairsFrom(FieldsFrom(SaverState(st.idx + 1, st._mappings, st.csv), st.idx,
                              latin_entries[matched_pairs[k][1]],
                              polish_entries[matched_pairs[k][2]], 1),
                   latin_entries, polish_entries, matched_pairs, k + 1)

\* BatchFull with ">" in the place of ">=".
BatchFullStrict(processed, size) == processed > size

\* if self.pages_processed >= self.batch_size
BatchFull(processed, size) == processed >= size

\* save runs to its end: not "not force and pages_processed < batch_size", and
\* not "pages_processed == 0 and not force"
SaveRuns(force, processed, size) ==
    /\ ~(~force /\ ~BatchFull(processed, size))
    /\ ~(processed = 0 /\ ~force)

InitSaver ==
    /\ batch_size \in 1..MaxBatch
    /\ pages_processed = 0
    /\ _mappings = {}
    /\ idx = 0
    /\ files = None
    /\ csv = <<>>
    /\ last_call = <<"__init__">>
    /\ EvalIdle
    /\ ParseIdle
    /\ LLMIdle
    /\ RunIdle

\* update(schematism, filename, latin_data, polish_data), with the call of
\* save() at its end
SaverUpdate ==
    \E latin_data \in LatinPages, polish_data \in PolishPages :
        /\ last_call' = <<"update", latin_data, polish_data>>
        /\ IF ~(Parses(latin_data) /\ Parses(polish_data))
           THEN UNCHANGED <<pages_processed, idx, _mappings, files, csv>>
           ELSE LET matched_pairs == _match_entries(latin_data[2], polish_data[2])
                    st == PairsFrom(SaverState(idx, _mappings, csv),
                                    latin_data[2], polish_data[2], matched_pairs, 1)
                    processed == pages_processed + 1
                IN /\ st.idx <= MaxIdx
                   /\ idx' = st.idx
                   /\ _mappings' = st._mappings
                   /\ csv' = st.csv
                   /\ IF BatchFull(processed, batch_size)
                         /\ SaveRuns(FALSE, processed, batch_size)
                      THEN files' = <<"written", st._mappings>> /\ pages_processed' = 0
                      ELSE files' = files /\ pages_processed' = processed
        /\ UNCHANGED batch_size
        /\ UNCHANGED <<evalVars, parseVars, llmVars, runVars>>

\* save(force)
SaverSave ==
    \E force \in BOOLEAN :
        /\ last_call' = <<"save", force>>
        /\ IF SaveRuns(force, pages_processed, batch_size)
           THEN files' = <<"written", _mappings>> /\ pages_processed' = 0
           ELSE UNCHANGED <<files, pages_processed>>
        /\ UNCHANGED <<batch_size, idx, _mappings, csv>>
        /\ UNCHANGED <<evalVars, parseVars, llmVars, runVars>>

NextSaver == SaverUpdate \/ SaverSave

SpecSaver == InitSaver /\ [][NextSaver]_vars

(***************************************************************************)
(* C30: MappingSaver batching                                              *)
(***************************************************************************)
\* the ids of the rows of parish_mappings.csv: one row a matched pair
PairIds == SelectSeq(csv, LAMBDA row : row[1] = "parish")

\* C30: when a call has returned, pages_processed is in 0..batch_size-1 and the
\* ids of the matched pairs are distinct and below idx; an update whose page
\* data does not parse changes neither pages_processed, idx nor the mappings;
\* an update that parses counts one page, and when it is the batch_size-th
\* since the last write it writes the mappings and resets pages_processed to
\* 0; idx never decreases.
C30_SaverBatching ==
    /\ [](/\ batch_size >= 1
          /\ pages_processed \in 0..(batch_size - 1)
          /\ \A i, j \in 1..Len(PairIds) : i # j => PairIds[i][2] # PairIds[j][2]
          /\ \A i \in 1..Len(PairIds) : PairIds[i][2] < idx)
    /\ [][/\ idx' >= idx
          /\ Len(PairIds') - Len(PairIds) = idx' - idx
          /\ last_call'[1] = "update" =>
                IF Parses(last_call'[2]) /\ Parses(last_call'[3])
                THEN IF pages_processed = batch_size - 1
                     THEN pages_processed' = 0 /\ files' = <<"written", _mappings'>>
                     ELSE pages_processed' = pages_processed + 1 /\ files' = files
                ELSE /\ pages_processed' = pages_processed
                     /\ idx' = idx
                     /\ _mappings' = _mappings
      ]_vars

\* C30 witness: the update that filled a batch of two has written the mappings,
\* three matched pairs having got their ids.
C30_Witness ==
    /\ batch_size = 2
    /\ last_call[1] = "update"
    /\ pages_processed = 0
    /\ idx = 3
    /\ files = <<"written", _mappings>>
    /\ _mappings # {}

====
